---- MODULE Spec2Model ----
\* A model of the render pipeline of kevintyj/pss: snapshot acquisition
\* (BrowserManager.takeSnapshot), route resolution (PrerenderEngine.getRoutes and
\* crawlLinks) and per-acquisition domain blocking on the shared browser context.
\*
\* The repository holds two sources of BrowserManager: packages/browser/src/index.ts
\* (retry loop with the network-idle fallback, blocking rules on the shared context)
\* and unnamed/part_011 (plain retry loop, blocking rules on the attempt's page).
\* The variable `manager` says which of the two a behaviour runs.
EXTENDS Integers, Sequences, FiniteSets, TLC

\* ------------------------------------------------------------------ bounds

MaxRetry == 2

MaxDepth == 2

MaxConcurrency == 2

MaxRoutes == 2

MaxAcquisitions == 2

MaxOverrides == 3

MaxRouteLen == 3

MaxMeta == 2

\* Anchors in a crawled page.
MaxAnchors == 2

\* The options on one command line.
MaxArgs == 2

\* ------------------------------------------------------------------ state

VARIABLES
    manager,            \* which BrowserManager source runs: "index_ts" or "part_011"
    options,            \* SnapshotOptions of the takeSnapshot call
    pc,                 \* position of the takeSnapshot call
    attempt,            \* loop counter of takeSnapshot
    attemptedFallback,  \* index.ts:150
    currentWaitUntil,   \* index.ts:151
    lastError,          \* index.ts:149
    navigations,        \* log of the attemptSnapshot calls made, in order
    outcome,            \* what takeSnapshot returned or raised
    config,             \* PSSConfig and the site served: fixed during a run
    crawlPc,            \* position of getRoutes / crawlLinks
    routes,             \* getRoutes: the seed list (explicit + sitemap routes)
    visited,            \* crawlLinks: Set of routes seen
    discovered,         \* crawlLinks: Set of routes found through links
    queue,              \* crawlLinks: work queue of {route, depth}
    batch,              \* crawlLinks: the tasks of the wave being awaited
    crawlLog,           \* what the crawl did: fetches made, depths given, failures
    finalRoutes,        \* what getRoutes returned
    blockGlobal,        \* this.options.blockDomains of the BrowserManager
    contextRoutes,      \* the route handlers of the shared context, latest first
    acquisitions,       \* the concurrent takeSnapshot calls and their block lists
    requestLog,         \* per acquisition, its latest page request and what decided it
    call,               \* the pending call of a pure method: its name and arguments
    ret,                \* what that call returned
    snapshotOptions,    \* the options the attemptSnapshot calls run with
    attempts,           \* the concurrent attemptSnapshot activations
    contentCache,       \* OriginalContentExtractor.contentCache
    extractLog,         \* per cache key, the extractions started (disk reads, navigations)
    engine,             \* PrerenderEngine.prerender: its configuration, position and effects
    pool,               \* processRoutes: the tasks handed to its limit
    snapshots           \* processRoutes: the snapshots pushed so far

snapVars == <<manager, options, pc, attempt, attemptedFallback, currentWaitUntil,
              lastError, navigations, outcome>>

crawlVars == <<config, crawlPc, routes, visited, discovered, queue, batch, crawlLog,
               finalRoutes>>

blockVars == <<blockGlobal, contextRoutes, acquisitions, requestLog>>

pureVars == <<call, ret>>

attemptVars == <<snapshotOptions, attempts, contentCache, extractLog>>

engineVars == <<engine, pool, snapshots>>

vars == <<snapVars, crawlVars, blockVars, pureVars, attemptVars, engineVars>>

\* ------------------------------------------------------------------ values

Managers == {"index_ts", "part_011"}

WaitUntilValues == {"load", "domcontentloaded", "networkidle", "commit"}

Statuses == {200, 204, 404, 504}

StatusText(s) ==
    CASE s = 200 -> "OK"
      [] s = 204 -> "No Content"
      [] s = 404 -> "Not Found"
      [] s = 504 -> "Gateway Timeout"
      [] OTHER -> ""

\* The status texts that contain the substring 'Timeout'.
TimeoutTexts == {"Gateway Timeout", "Request Timeout"}

NoError == [cause |-> "none", status |-> 0, statusText |-> ""]

NoOutcome == [kind |-> "none", nav |-> 0, statusCode |-> 0, error |-> NoError]

\* What one page.goto can do: answer with a status, time out, or raise another
\* navigation exception (connection refused, no response).
AttemptOutcomes ==
    [kind : {"response"}, status : Statuses]
        \cup {[kind |-> "timeout", status |-> 0], [kind |-> "navError", status |-> 0]}

SnapshotOptionsSet ==
    [retry : 0..MaxRetry, waitUntil : WaitUntilValues, autoFallbackNetworkIdle : BOOLEAN]

\* ------------------------------------------------------------------ attemptSnapshot

\* attemptSnapshot returns only for a response whose status is exactly 200.
AttemptSucceeds(o) == o.kind = "response" /\ o.status = 200

\* The Error attemptSnapshot raises: the cause, and the response's status and status
\* text when a response was received.
AttemptError(o) ==
    [cause |-> IF o.kind = "response" THEN "http" ELSE o.kind,
     status |-> o.status,
     statusText |-> IF o.kind = "response" THEN StatusText(o.status) ELSE ""]

\* lastError.message.includes('TimeoutError') || lastError.message.includes('Timeout')
MessageIncludesTimeout(e) ==
    \/ e.cause = "timeout"
    \/ e.cause = "http" /\ e.statusText \in TimeoutTexts

\* ------------------------------------------------------------------ takeSnapshot

\* for (let attempt = 0; attempt <= retry; attempt++)
LoopContinuesOneMore(a, r) == a <= r + 1

LoopContinues(a, r) == a <= r

CanRetry(a, r) == a < r

ShouldFallback(auto, attempted, waitUntil, e) ==
    auto /\ ~attempted /\ waitUntil = "networkidle" /\ MessageIncludesTimeout(e)

AttemptAfterFallbackCounted(a) == a + 1

\* attempt-- ; continue ; attempt++ of the for statement
AttemptAfterFallback(a) == (a - 1) + 1

MaxAttempts(r) == r + 1

SnapInit ==
    /\ options = [retry |-> 0, waitUntil |-> "load", autoFallbackNetworkIdle |-> TRUE]
    /\ pc = "idle"
    /\ attempt = 0
    /\ attemptedFallback = FALSE
    /\ currentWaitUntil = "load"
    /\ lastError = NoError
    /\ navigations = <<>>
    /\ outcome = NoOutcome

\* The call: the locals are set from the options.
TakeSnapshot ==
    /\ pc = "idle"
    /\ \E o \in SnapshotOptionsSet :
        /\ options' = o
        /\ currentWaitUntil' = o.waitUntil
    /\ attempt' = 0
    /\ attemptedFallback' = FALSE
    /\ lastError' = NoError
    /\ pc' = "loop"
    /\ UNCHANGED <<manager, navigations, outcome>>
    /\ UNCHANGED <<crawlVars, blockVars, pureVars, attemptVars, engineVars>>

Navigation(o) == [attempt |-> attempt, waitUntil |-> currentWaitUntil, outcome |-> o]

Returned(o) ==
    [kind |-> "returned", nav |-> Len(navigations) + 1, statusCode |-> o.status,
     error |-> NoError]

RaisedWithoutCause(e) ==
    [kind |-> "raised", nav |-> 0, statusCode |-> 0, error |-> NoError]

Raised(e) ==
    [kind |-> "raised", nav |-> 0, statusCode |-> 0, error |-> e]

\* One iteration of the for loop of packages/browser/src/index.ts.
TakeSnapshotLoop ==
    /\ manager = "index_ts"
    /\ pc = "loop"
    /\ LoopContinues(attempt, options.retry)
    /\ \E o \in AttemptOutcomes :
        /\ navigations' = Append(navigations, Navigation(o))
        /\ IF AttemptSucceeds(o)
           THEN /\ pc' = "done"
                /\ outcome' = Returned(o)
                /\ UNCHANGED <<attempt, attemptedFallback, currentWaitUntil, lastError>>
           ELSE /\ lastError' = AttemptError(o)
                /\ UNCHANGED <<pc, outcome>>
                /\ IF /\ CanRetry(attempt, options.retry)
                      /\ ShouldFallback(options.autoFallbackNetworkIdle, attemptedFallback,
                                        currentWaitUntil, AttemptError(o))
                   THEN /\ currentWaitUntil' = "load"
                        /\ attemptedFallback' = TRUE
                        /\ attempt' = AttemptAfterFallback(attempt)
                   ELSE /\ attempt' = attempt + 1
                        /\ UNCHANGED <<attemptedFallback, currentWaitUntil>>
    /\ UNCHANGED <<manager, options>>
    /\ UNCHANGED <<crawlVars, blockVars, pureVars, attemptVars, engineVars>>

\* The throw after the for loop of packages/browser/src/index.ts.
TakeSnapshotThrow ==
    /\ manager = "index_ts"
    /\ pc = "loop"
    /\ ~LoopContinues(attempt, options.retry)
    /\ pc' = "done"
    /\ outcome' = Raised(lastError)
    /\ UNCHANGED <<manager, options, attempt, attemptedFallback, currentWaitUntil,
                   lastError, navigations>>
    /\ UNCHANGED <<crawlVars, blockVars, pureVars, attemptVars, engineVars>>

\* One iteration of the while loop of unnamed/part_011.
TakeSnapshotWhile ==
    /\ manager = "part_011"
    /\ pc = "loop"
    /\ attempt < MaxAttempts(options.retry)
    /\ \E o \in AttemptOutcomes :
        /\ navigations' = Append(navigations, Navigation(o))
        /\ IF AttemptSucceeds(o)
           THEN /\ pc' = "done"
                /\ outcome' = Returned(o)
                /\ UNCHANGED <<attempt, lastError>>
           ELSE /\ attempt' = attempt + 1
                /\ lastError' = AttemptError(o)
                /\ IF attempt + 1 >= MaxAttempts(options.retry)
                   THEN /\ pc' = "done"
                        /\ outcome' = Raised(AttemptError(o))
                   ELSE UNCHANGED <<pc, outcome>>
    /\ UNCHANGED <<manager, options, attemptedFallback, currentWaitUntil>>
    /\ UNCHANGED <<crawlVars, blockVars, pureVars, attemptVars, engineVars>>

SnapNext == TakeSnapshot \/ TakeSnapshotLoop \/ TakeSnapshotThrow \/ TakeSnapshotWhile


\* ------------------------------------------------------------------ routes

\* Routes are strings, modelled as sequences of characters.
Root == <<"/">>

Page(c) == <<"/", c>>

StartsWith(str, prefix) ==
    Len(str) >= Len(prefix) /\ SubSeq(str, 1, Len(prefix)) = prefix

\* String.prototype.includes
Includes(str, part) ==
    \E i \in 1..(Len(str) - Len(part) + 1) : SubSeq(str, i, i + Len(part) - 1) = part

\* str.split(sep)[0]
SplitFirst(str, sep) ==
    LET at == {i \in 1..Len(str) : str[i] = sep}
    IN  IF at = {} THEN str
        ELSE SubSeq(str, 1, (CHOOSE i \in at : \A j \in at : i <= j) - 1)

normalizeRoute(route) ==
    LET cleanRoute == SplitFirst(SplitFirst(route, "?"), "#")
    IN  IF StartsWith(cleanRoute, <<"/">>) THEN cleanRoute ELSE <<"/">> \o cleanRoute

\* An exclusion pattern is a string (substring test) or a RegExp; the RegExps
\* modelled are the anchored literals /^text/.
PatternMatches(pattern, route) ==
    IF pattern.kind = "regexp" THEN StartsWith(route, pattern.text)
    ELSE Includes(route, pattern.text)

isExcluded(route) ==
    \E i \in 1..Len(config.exclude) : PatternMatches(config.exclude[i], route)

\* ------------------------------------------------------------------ crawl inputs

\* The pages a site can hold. '/x' is the page the exclusion patterns aim at.
SmallPages == <<Root, Page("a"), Page("b")>>

AllPages ==
    {Root, Page("a"), Page("b"), Page("c"), Page("d"), Page("e"), Page("t"), Page("x")}

Range(seq) == {seq[i] : i \in 1..Len(seq)}

NoLinks == [p \in AllPages |-> <<>>]

\* Every link graph over the three small pages, self-links and cycles included; the
\* links of a page are listed in the order of SmallPages.
SmallSites ==
    [name : {"small"}, links : [Range(SmallPages) -> SUBSET Range(SmallPages)]]

\* '/' links to '/a' (about) and '/c' (contact); '/a' links to '/t' (team) and to the
\* excluded '/x', which links to '/d'.
ScenarioSite ==
    [NoLinks EXCEPT ![Root] = <<Page("a"), Page("c")>>,
                    ![Page("a")] = <<Page("t"), Page("x")>>,
                    ![Page("x")] = <<Page("d")>>]

\* '/a' links to '/d'; '/c' and '/d' both link to '/e'; '/e' links to '/t' and back
\* to '/a'.
DiamondSite ==
    [NoLinks EXCEPT ![Page("a")] = <<Page("d")>>,
                    ![Page("c")] = <<Page("e")>>,
                    ![Page("d")] = <<Page("e")>>,
                    ![Page("e")] = <<Page("t"), Page("a")>>]

LargeSites ==
    [name : {"scenario", "diamond"}, links : {[p \in Range(SmallPages) |-> {}]}]

\* The same-origin links extractLinksFromHtml finds in the page served for a route,
\* in document order.
SiteLinks(site, page) ==
    CASE site.name = "scenario" -> ScenarioSite[page]
      [] site.name = "diamond" -> DiamondSite[page]
      [] OTHER -> IF page \in Range(SmallPages)
                  THEN SelectSeq(SmallPages, LAMBDA q : q \in site.links[page])
                  ELSE <<>>

\* Entries of config.routes as the user may write them.
RawRoutes == {Root, <<"a", "?", "q">>, Page("x")}

RouteLists == UNION {[1..n -> RawRoutes] : n \in 0..MaxRoutes}

\* The pathnames of the <loc> entries of the sitemap.
Sitemaps == {<<>>, <<Root, Page("x")>>, <<Page("a"), Page("b"), Page("c")>>}

\* config.exclude: nothing, the substring '/b', or the RegExp /^\/x/.
ExcludeString == <<[kind |-> "string", text |-> <<"/", "b">>]>>

ExcludeRegExp == <<[kind |-> "regexp", text |-> <<"/", "x">>]>>

\* The runs modelled: every small site crawled from the default root route, and the
\* two larger sites resolved from every explicit route list and sitemap.
CrawlConfigs ==
    [site : SmallSites, routes : {<<>>}, sitemap : {<<>>},
     exclude : {<<>>, ExcludeString},
     crawlLinks : {TRUE}, depth : 0..MaxDepth, concurrency : 1..MaxConcurrency]
    \cup
    [site : LargeSites, routes : RouteLists, sitemap : Sitemaps,
     exclude : {<<>>, ExcludeRegExp},
     crawlLinks : BOOLEAN, depth : 0..MaxDepth, concurrency : 1..MaxConcurrency]

\* ------------------------------------------------------------------ getRoutes, crawlLinks

\* parseSitemap: each loc's pathname, normalized, unless excluded.
parseSitemap ==
    LET normalized == [i \in 1..Len(config.sitemap) |-> normalizeRoute(config.sitemap[i])]
    IN  SelectSeq(normalized, LAMBDA r : ~isExcluded(r))

\* getRoutes:272-288: explicit routes, then sitemap routes, '/' when there is none.
SeedRoutes ==
    LET found == config.routes \o parseSitemap
    IN  IF Len(found) = 0 THEN <<Root>> ELSE found

\* getRoutes:303: [...new Set(routes.map(normalizeRoute))]
UniqueRoutes(seeds, crawled) == {normalizeRoute(seeds[i]) : i \in 1..Len(seeds)} \cup crawled

DepthExhaustedLate(depth, maxDepth) == depth > maxDepth

\* if (depth >= maxDepth) return;
DepthExhausted(depth, maxDepth) == depth >= maxDepth

IsNewRoute(link, seen) == link \notin seen /\ ~isExcluded(link)

RethrowCrawlError(task) == [task EXCEPT !.status = "rejected"]

\* catch (error) { console.warn(...) }: the task resolves.
CatchCrawlError(task) == [task EXCEPT !.status = "resolved"]

NoCrawlLog == [fetched |-> <<>>, assigned |-> {}, failed |-> {}, succeeded |-> {}]

CrawlIdle ==
    /\ config = [site |-> [name |-> "small", links |-> [p \in Range(SmallPages) |-> {}]],
                 routes |-> <<>>, sitemap |-> <<>>, exclude |-> <<>>,
                 crawlLinks |-> FALSE, depth |-> 0, concurrency |-> 1]
    /\ crawlPc = "off"
    /\ routes = <<>>
    /\ visited = {}
    /\ discovered = {}
    /\ queue = <<>>
    /\ batch = <<>>
    /\ crawlLog = NoCrawlLog
    /\ finalRoutes = {}

CrawlInit ==
    /\ config \in CrawlConfigs
    /\ crawlPc = "start"
    /\ routes = <<>>
    /\ visited = {}
    /\ discovered = {}
    /\ queue = <<>>
    /\ batch = <<>>
    /\ crawlLog = NoCrawlLog
    /\ finalRoutes = {}

\* getRoutes up to the call of crawlLinks, and crawlLinks up to its while loop: the
\* seeds are queued at depth 0 and marked visited. Without crawling getRoutes returns.
getRoutes ==
    /\ crawlPc = "start"
    /\ \E seeds \in {SeedRoutes} :
        /\ routes' = seeds
        /\ IF config.crawlLinks
           THEN /\ queue' = [i \in 1..Len(seeds) |->
                                [route |-> normalizeRoute(seeds[i]), depth |-> 0]]
                /\ visited' = {normalizeRoute(seeds[i]) : i \in 1..Len(seeds)}
                /\ crawlLog' = [crawlLog EXCEPT !.assigned =
                      {[route |-> normalizeRoute(seeds[i]), depth |-> 0, from |-> <<>>] :
                          i \in 1..Len(seeds)}]
                /\ crawlPc' = "loop"
                /\ UNCHANGED finalRoutes
           ELSE /\ finalRoutes' = UniqueRoutes(seeds, {})
                /\ crawlPc' = "done"
                /\ UNCHANGED <<queue, visited, crawlLog>>
    /\ UNCHANGED <<config, discovered, batch>>
    /\ UNCHANGED <<snapVars, blockVars, pureVars, attemptVars, engineVars>>

\* A task of the wave, run up to its first await: it returns at once when its depth
\* is exhausted, and calls takeSnapshot otherwise.
StartTask(entry) ==
    [route |-> entry.route, depth |-> entry.depth,
     status |-> IF DepthExhausted(entry.depth, config.depth) THEN "resolved" ELSE "fetching"]

\* queue.splice(0, concurrency) and batch.map(...limit(...)): every task of the wave
\* starts before any fetch completes.
StartBatch ==
    /\ crawlPc = "loop"
    /\ queue # <<>>
    /\ LET n == IF Len(queue) < config.concurrency THEN Len(queue) ELSE config.concurrency
       IN  \E started \in {[i \in 1..n |-> StartTask(queue[i])]} :
             /\ batch' = started
             /\ queue' = SubSeq(queue, n + 1, Len(queue))
             /\ \E fetching \in {SelectSeq(started, LAMBDA t : t.status = "fetching")} :
                   crawlLog' = [crawlLog EXCEPT !.fetched =
                       @ \o [i \in 1..Len(fetching) |->
                              [route |-> fetching[i].route, depth |-> fetching[i].depth]]]
    /\ crawlPc' = "batch"
    /\ UNCHANGED <<config, routes, visited, discovered, finalRoutes>>
    /\ UNCHANGED <<snapVars, blockVars, pureVars, attemptVars, engineVars>>

\* The for loop over the links of a crawled page: a record of the new visited set,
\* discovered set, queue and depth assignments after the first k links.
RECURSIVE AddLinks(_, _, _, _)
AddLinks(links, k, task, acc) ==
    IF k > Len(links) THEN acc
    ELSE LET normalizedLink == normalizeRoute(links[k])
         IN  IF IsNewRoute(normalizedLink, acc.visited)
             THEN AddLinks(links, k + 1, task,
                     [visited |-> acc.visited \cup {normalizedLink},
                      discovered |-> acc.discovered \cup {normalizedLink},
                      queue |-> Append(acc.queue,
                                       [route |-> normalizedLink, depth |-> task.depth + 1]),
                      assigned |-> acc.assigned \cup
                          {[route |-> normalizedLink, depth |-> task.depth + 1,
                            from |-> task.route]}])
             ELSE AddLinks(links, k + 1, task, acc)

\* takeSnapshot returned for task i: its links are scanned and the new ones queued.
FetchSucceeds(i) ==
    /\ crawlPc = "batch"
    /\ batch[i].status = "fetching"
    /\ \E after \in {AddLinks(SiteLinks(config.site, batch[i].route), 1, batch[i],
                                [visited |-> visited, discovered |-> discovered,
                                 queue |-> queue, assigned |-> crawlLog.assigned])} :
           /\ visited' = after.visited
           /\ discovered' = after.discovered
           /\ queue' = after.queue
           /\ crawlLog' = [crawlLog EXCEPT !.assigned = after.assigned,
                                           !.succeeded = @ \cup {batch[i].route}]
    /\ batch' = [batch EXCEPT ![i].status = "resolved"]
    /\ UNCHANGED <<config, crawlPc, routes, finalRoutes>>
    /\ UNCHANGED <<snapVars, blockVars, pureVars, attemptVars, engineVars>>

\* takeSnapshot raised for task i after its retries.
FetchFails(i) ==
    /\ crawlPc = "batch"
    /\ batch[i].status = "fetching"
    /\ batch' = [batch EXCEPT ![i] = CatchCrawlError(batch[i])]
    /\ crawlLog' = [crawlLog EXCEPT !.failed = @ \cup {batch[i].route}]
    /\ UNCHANGED <<config, crawlPc, routes, visited, discovered, queue, finalRoutes>>
    /\ UNCHANGED <<snapVars, blockVars, pureVars, attemptVars, engineVars>>

\* await Promise.all(promises): the wave is over when every task has settled; a
\* rejected task makes crawlLinks, and with it getRoutes, raise.
BatchSettles ==
    /\ crawlPc = "batch"
    /\ \A i \in 1..Len(batch) : batch[i].status # "fetching"
    /\ crawlPc' = IF \E i \in 1..Len(batch) : batch[i].status = "rejected"
                  THEN "raised" ELSE "loop"
    /\ batch' = <<>>
    /\ UNCHANGED <<config, routes, visited, discovered, queue, crawlLog, finalRoutes>>
    /\ UNCHANGED <<snapVars, blockVars, pureVars, attemptVars, engineVars>>

\* The queue is empty: crawlLinks returns Array.from(discovered) and getRoutes
\* returns the unique normalized routes.
ReturnRoutes ==
    /\ crawlPc = "loop"
    /\ queue = <<>>
    /\ finalRoutes' = UniqueRoutes(routes, discovered)
    /\ crawlPc' = "done"
    /\ UNCHANGED <<config, routes, visited, discovered, queue, batch, crawlLog>>
    /\ UNCHANGED <<snapVars, blockVars, pureVars, attemptVars, engineVars>>

CrawlNext ==
    \/ getRoutes
    \/ StartBatch
    \/ \E i \in 1..Len(batch) : FetchSucceeds(i)
    \/ \E i \in 1..Len(batch) : FetchFails(i)
    \/ BatchSettles
    \/ ReturnRoutes

\* ------------------------------------------------------------------ domain blocking

\* Hosts and blocked-domain strings, as sequences of characters.
Hosts == {<<"a", "d">>, <<"c", "d">>}

\* The blockDomains lists a configuration gives, globally or for a route.
BlockLists == {<<>>, <<<<"a", "d">>>>, <<<<"c", "d">>>>}

AcquisitionIds == 1..MaxAcquisitions

\* The owner of the rule launch() installs.
GlobalRule == 0

NoRule == GlobalRule - 1

\* blockDomains.some(domain => url.includes(domain) || hostname === domain || ...)
shouldBlock(blockDomains, host) ==
    \E i \in 1..Len(blockDomains) : Includes(host, blockDomains[i])

\* launch:97-114: the global rule is installed when the global list is not empty.
LaunchRoutes(global) ==
    IF Len(global) > 0 THEN <<[owner |-> GlobalRule, domains |-> global]>> ELSE <<>>

\* takeSnapshot:155-159: blockDomains.length > 0 and
\* JSON.stringify(blockDomains) !== JSON.stringify(this.options.blockDomains)
NeedsRouteCleanup(blockDomains, global) == Len(blockDomains) > 0 /\ blockDomains # global

\* context.route(url, handler): the handler is put in front of the others.
AddRoute(handlers, handler) == <<handler>> \o handlers

\* context.unroute('**/*') without a handler: every handler of that pattern goes, and
\* every handler of the model is registered for '**/*'.
Unroute(handlers) == SelectSeq(handlers, LAMBDA h : FALSE)

\* The handlers a request of acquisition a meets: those of its page, then those of
\* the context. The first one aborts or continues the request; none falls through.
HandlersFor(a) == acquisitions[a].pageRoutes \o contextRoutes

Decision(a, host) ==
    IF HandlersFor(a) = <<>>
    THEN [acq |-> a, host |-> host, by |-> NoRule, blocked |-> FALSE]
    ELSE [acq |-> a, host |-> host, by |-> Head(HandlersFor(a)).owner,
          blocked |-> shouldBlock(Head(HandlersFor(a)).domains, host)]

NoRequest(a) == [acq |-> a, host |-> <<>>, by |-> NoRule, blocked |-> FALSE]

IdleAcquisition ==
    [pc |-> "idle", blockDomains |-> <<>>, needsRouteCleanup |-> FALSE,
     pageRoutes |-> <<>>]

BlockIdle ==
    /\ blockGlobal = <<>>
    /\ contextRoutes = <<>>
    /\ acquisitions = [a \in AcquisitionIds |-> IdleAcquisition]
    /\ requestLog = [a \in AcquisitionIds |-> NoRequest(a)]

BlockInit ==
    /\ blockGlobal \in BlockLists
    /\ contextRoutes = LaunchRoutes(blockGlobal)
    /\ acquisitions = [a \in AcquisitionIds |-> IdleAcquisition]
    /\ requestLog = [a \in AcquisitionIds |-> NoRequest(a)]

\* takeSnapshot up to its attempts. index.ts registers the per-request rule on the
\* shared context; part_011 registers it on the page of the attempt.
InstallBlocking(a) ==
    /\ acquisitions[a].pc = "idle"
    /\ \E list \in BlockLists :
        IF manager = "index_ts"
        THEN /\ acquisitions' = [acquisitions EXCEPT ![a] =
                    [@ EXCEPT !.pc = "running", !.blockDomains = list,
                              !.needsRouteCleanup = NeedsRouteCleanup(list, blockGlobal)]]
             /\ contextRoutes' =
                    IF NeedsRouteCleanup(list, blockGlobal)
                    THEN AddRoute(contextRoutes, [owner |-> a, domains |-> list])
                    ELSE contextRoutes
        ELSE /\ acquisitions' = [acquisitions EXCEPT ![a] =
                    [@ EXCEPT !.pc = "running", !.blockDomains = list,
                              !.pageRoutes = IF Len(list) > 0
                                             THEN <<[owner |-> a, domains |-> list]>>
                                             ELSE <<>>]]
             /\ UNCHANGED contextRoutes
    /\ UNCHANGED <<blockGlobal, requestLog>>
    /\ UNCHANGED <<snapVars, crawlVars, pureVars, attemptVars, engineVars>>

\* The page of a running acquisition requests a URL of some host.
RouteRequest(a) ==
    /\ acquisitions[a].pc = "running"
    /\ \E host \in Hosts : requestLog' = [requestLog EXCEPT ![a] = Decision(a, host)]
    /\ UNCHANGED <<blockGlobal, contextRoutes, acquisitions>>
    /\ UNCHANGED <<snapVars, crawlVars, pureVars, attemptVars, engineVars>>

\* The attempts are over (returned or raised). index.ts: the finally block calls
\* context.unroute('**/*') when it had installed a rule; part_011: the page is closed.
CleanupRoutes(a) ==
    /\ acquisitions[a].pc = "running"
    /\ IF manager = "index_ts" /\ acquisitions[a].needsRouteCleanup
       THEN /\ contextRoutes' = Unroute(contextRoutes)
            /\ acquisitions' = [acquisitions EXCEPT ![a].pc = "restoring"]
       ELSE /\ acquisitions' = [acquisitions EXCEPT ![a].pc = "done", ![a].pageRoutes = <<>>]
            /\ UNCHANGED contextRoutes
    /\ UNCHANGED <<blockGlobal, requestLog>>
    /\ UNCHANGED <<snapVars, crawlVars, pureVars, attemptVars, engineVars>>

\* index.ts:270-285, after the await of unroute: the global rule is registered again
\* when a global list is configured.
ReestablishGlobal(a) ==
    /\ acquisitions[a].pc = "restoring"
    /\ contextRoutes' = LaunchRoutes(blockGlobal) \o contextRoutes
    /\ acquisitions' = [acquisitions EXCEPT ![a].pc = "done"]
    /\ UNCHANGED <<blockGlobal, requestLog>>
    /\ UNCHANGED <<snapVars, crawlVars, pureVars, attemptVars, engineVars>>

BlockNext ==
    \/ \E a \in AcquisitionIds : InstallBlocking(a)
    \/ \E a \in AcquisitionIds : RouteRequest(a)
    \/ \E a \in AcquisitionIds : CleanupRoutes(a)
    \/ \E a \in AcquisitionIds : ReestablishGlobal(a)

\* ------------------------------------------------------------------ pure methods

\* No call is pending.
NoCall == [method |-> "none"]

NotReturned == [returned |-> FALSE]

Return(value) == [returned |-> TRUE, value |-> value]

PureIdle == call = NoCall /\ ret = NotReturned

\* ------------------------------------------------------------------ route-specific configuration

\* An optional field or result: undefined, or a defined value.
Undefined == <<>>

Defined(v) == <<v>>

\* new RegExp(`^${pattern.replace(/\*/g, '.*')}$`).test(route), for the patterns of
\* the model, whose only character with a meaning in a RegExp is '*': does
\* pattern[i..] match route[j..] to its end.
RECURSIVE RegExpTest(_, _, _, _)
RegExpTest(pattern, i, route, j) ==
    IF i > Len(pattern) THEN j > Len(route)
    ELSE IF pattern[i] = "*"
         THEN \E k \in j..(Len(route) + 1) : RegExpTest(pattern, i + 1, route, k)
         ELSE /\ j <= Len(route)
              /\ route[j] = pattern[i]
              /\ RegExpTest(pattern, i + 1, route, j + 1)

routeMatches(route, pattern) ==
    \/ pattern = route
    \/ pattern = <<"*">>
    \/ Includes(pattern, <<"*">>) /\ RegExpTest(pattern, 1, route, 1)

\* for (const config of configs) { if (test) return config; }: of the indices of the
\* entries that pass the test the first, 0 when the loop ends without returning.
FirstMatch(found) ==
    IF found = {} THEN 0 ELSE CHOOSE i \in found : \A j \in found : i <= j

IsExactMatch(entry, route) == entry.route = route

IsSpecificPattern(entry, route) ==
    /\ entry.route # <<"*">>
    /\ Includes(entry.route, <<"*">>)
    /\ routeMatches(route, entry.route)

IsGlobalWildcard(entry) == entry.route = <<"*">>

getRouteConfigInListOrder(configs, route) ==
    LET first == FirstMatch({i \in 1..Len(configs) : routeMatches(route, configs[i].route)})
    IN  IF first # 0 THEN Defined(configs[first]) ELSE Undefined

getRouteConfig(configs, route) ==
    LET exact == FirstMatch({i \in 1..Len(configs) : IsExactMatch(configs[i], route)})
        specific == FirstMatch({i \in 1..Len(configs) : IsSpecificPattern(configs[i], route)})
        global == FirstMatch({i \in 1..Len(configs) : IsGlobalWildcard(configs[i])})
    IN  IF exact # 0 THEN Defined(configs[exact])
        ELSE IF specific # 0 THEN Defined(configs[specific])
        ELSE IF global # 0 THEN Defined(configs[global])
        ELSE Undefined

\* routeConfig?.field
OptionalField(routeConfig, field) ==
    IF routeConfig = Undefined THEN Undefined ELSE routeConfig[1][field]

\* a || b for a number a: undefined and 0 are falsy.
OrNumber(a, b) == IF a # Undefined /\ a[1] # 0 THEN a[1] ELSE b

\* a || b for an array, an object or a WaitUntil string a: only undefined is falsy.
OrObject(a, b) == IF a # Undefined THEN a[1] ELSE b

getEffectiveConfig(cfg, route) ==
    LET routeConfig == getRouteConfig(cfg.routeConfig, route)
    IN  [waitUntil |-> OrObject(OptionalField(routeConfig, "waitUntil"), cfg.waitUntil),
         timeout |-> OrNumber(OptionalField(routeConfig, "timeout"), cfg.timeout),
         extraDelay |-> OrNumber(OptionalField(routeConfig, "extraDelay"), cfg.extraDelay),
         blockDomains |-> OrObject(OptionalField(routeConfig, "blockDomains"), cfg.blockDomains),
         retry |-> OrNumber(OptionalField(routeConfig, "retry"), cfg.retry),
         strip |-> OrObject(OptionalField(routeConfig, "strip"), cfg.strip),
         inject |-> OrObject(OptionalField(routeConfig, "inject"), cfg.inject)]

\* The route fields of the overrides: '*', '/a/*', '/a/b', '/*' and '/c'.
RoutePatterns ==
    {<<"*">>, <<"/", "a", "/", "*">>, <<"/", "a", "/", "b">>, <<"/", "*">>, <<"/", "c">>}

\* The routes resolved: '/a/b', '/a/c', '/c' and '/'.
ResolvedRoutes == {<<"/", "a", "/", "b">>, <<"/", "a", "/", "c">>, <<"/", "c">>, <<"/">>}

\* What an override sets besides its route: nothing; the zero and empty values the
\* schema admits; or every field.
OverrideBodies ==
    {[waitUntil |-> Undefined, timeout |-> Undefined, extraDelay |-> Undefined,
      blockDomains |-> Undefined, retry |-> Undefined, strip |-> Undefined,
      inject |-> Undefined],
     [waitUntil |-> Undefined, timeout |-> Undefined, extraDelay |-> Defined(0),
      blockDomains |-> Defined(<<>>), retry |-> Defined(0), strip |-> Defined(<<>>),
      inject |-> Undefined],
     [waitUntil |-> Defined("networkidle"), timeout |-> Defined(1000),
      extraDelay |-> Defined(500), blockDomains |-> Defined(<<"ad">>),
      retry |-> Defined(1), strip |-> Defined(<<"meta">>),
      inject |-> Defined([title |-> "route"])]}

RouteConfigs ==
    {[route |-> pattern, waitUntil |-> b.waitUntil, timeout |-> b.timeout,
      extraDelay |-> b.extraDelay, blockDomains |-> b.blockDomains, retry |-> b.retry,
      strip |-> b.strip, inject |-> b.inject] : pattern \in RoutePatterns, b \in OverrideBodies}

RouteConfigLists == UNION {[1..n -> RouteConfigs] : n \in 0..MaxOverrides}

\* The global configuration: a value of its own for every field.
ResolveConfigs ==
    [waitUntil : {"load"}, timeout : {5000}, extraDelay : {250}, blockDomains : {<<"cd">>},
     retry : {2}, strip : {<<"title">>}, inject : {[title |-> "global"]},
     routeConfig : RouteConfigLists]

ResolveCalls ==
    [method : {"getRouteConfig", "getEffectiveConfig"}, config : ResolveConfigs,
     route : ResolvedRoutes]

ResolveInit == call \in ResolveCalls /\ ret = NotReturned

GetRouteConfig ==
    /\ call.method = "getRouteConfig"
    /\ ~ret.returned
    /\ ret' = Return(getRouteConfig(call.config.routeConfig, call.route))
    /\ UNCHANGED call
    /\ UNCHANGED <<snapVars, crawlVars, blockVars, attemptVars, engineVars>>

GetEffectiveConfig ==
    /\ call.method = "getEffectiveConfig"
    /\ ~ret.returned
    /\ ret' = Return(getEffectiveConfig(call.config, call.route))
    /\ UNCHANGED call
    /\ UNCHANGED <<snapVars, crawlVars, blockVars, attemptVars, engineVars>>

ResolveNext == GetRouteConfig \/ GetEffectiveConfig

\* ------------------------------------------------------------------ normalizeRoute

\* The repository holds two sources of PrerenderEngine.normalizeRoute:
\* packages/core/src/index.ts (split on '?' and '#', see normalizeRoute above) and
\* unnamed/part_010 (the pathname of the route parsed as a URL, less a trailing slash).
EngineSources == {"index_ts", "part_010"}

DropWhileSlash(str) ==
    LET other == {i \in 1..Len(str) : str[i] # "/"}
    IN  IF other = {} THEN <<>>
        ELSE SubSeq(str, CHOOSE i \in other : \A j \in other : i <= j, Len(str))

\* new URL(route, 'http://example.com').pathname for routes over the characters of the
\* model; Undefined when the constructor throws. The fragment and the query are cut
\* off; a route that starts with '//' is scheme-relative: the slashes are skipped, the
\* host runs to the next '/' and an empty host is an invalid URL; any other route is a
\* path, resolved against the root.
UrlPathname(route) ==
    LET hier == SplitFirst(SplitFirst(route, "#"), "?")
        authority == DropWhileSlash(hier)
        host == SplitFirst(authority, "/")
        path == SubSeq(authority, Len(host) + 1, Len(authority))
    IN  IF StartsWith(hier, <<"/", "/">>)
        THEN IF host = <<>> THEN Undefined
             ELSE Defined(IF path = <<>> THEN <<"/">> ELSE path)
        ELSE IF StartsWith(hier, <<"/">>) THEN Defined(hier)
        ELSE Defined(<<"/">> \o hier)

\* if (pathname.length > 1 && pathname.endsWith('/')) pathname = pathname.slice(0, -1)
DropTrailingSlash(pathname) ==
    IF Len(pathname) > 1 /\ pathname[Len(pathname)] = "/"
    THEN SubSeq(pathname, 1, Len(pathname) - 1)
    ELSE pathname

\* normalizeRoute of unnamed/part_010: Undefined when it throws.
normalizeRoutePathname(route) ==
    IF UrlPathname(route) = Undefined THEN Undefined
    ELSE Defined(DropTrailingSlash(UrlPathname(route)[1]))

Normalize(source, route) ==
    IF source = "index_ts" THEN Defined(normalizeRoute(route))
    ELSE normalizeRoutePathname(route)

RouteCharacters == {"/", "a", "?", "#"}

RouteStrings == UNION {[1..n -> RouteCharacters] : n \in 0..MaxRouteLen}

NormalizeCalls == [method : {"normalizeRoute"}, source : EngineSources, route : RouteStrings]

NormalizeInit == call \in NormalizeCalls /\ ret = NotReturned

\* normalizeRoute(route): ret holds the results of the successive applications.
NormalizeRoute ==
    /\ call.method = "normalizeRoute"
    /\ ~ret.returned
    /\ ret' = Return(<<Normalize(call.source, call.route)>>)
    /\ UNCHANGED call
    /\ UNCHANGED <<snapVars, crawlVars, blockVars, attemptVars, engineVars>>

\* normalizeRoute applied to the route it returned.
NormalizeAgain ==
    /\ call.method = "normalizeRoute"
    /\ ret.returned
    /\ Len(ret.value) = 1
    /\ ret.value[1] # Undefined
    /\ ret' = Return(Append(ret.value, Normalize(call.source, ret.value[1][1])))
    /\ UNCHANGED call
    /\ UNCHANGED <<snapVars, crawlVars, blockVars, attemptVars, engineVars>>

NormalizeNext == NormalizeRoute \/ NormalizeAgain

\* ------------------------------------------------------------------ ContentMerger: meta tags in HTML

\* A meta key: its prefix ('og:', 'http-equiv:', ... or none) and the rest.
NoKey == [prefix |-> "", name |-> ""]

CharsetKey == [prefix |-> "", name |-> "charset"]

\* An HTML document is a sequence of tokens: markup other than meta tags, single
\* whitespace characters, and meta tags with the attribute that carries their key and
\* the text of their content attribute as it stands in the document.
Markup(text) == [kind |-> "markup", attr |-> text, key |-> NoKey, content |-> <<>>]

Ws(c) == [kind |-> "ws", attr |-> c, key |-> NoKey, content |-> <<>>]

Meta(attr, key, content) == [kind |-> "meta", attr |-> attr, key |-> key, content |-> content]

HtmlOpen == Markup("<html>")

HeadOpen == Markup("<head>")

HeadClose == Markup("</head>")

Spaces(n) == [i \in 1..n |-> Ws(" ")]

Newline == Ws("\n")

\* htmlEscapes[match] for one character.
EscapeCharacter(c) ==
    CASE c = "&" -> <<"&", "a", "m", "p", ";">>
      [] c = "<" -> <<"&", "l", "t", ";">>
      [] c = ">" -> <<"&", "g", "t", ";">>
      [] c = "\"" -> <<"&", "q", "u", "o", "t", ";">>
      [] c = "'" -> <<"&", "#", "3", "9", ";">>
      [] OTHER -> <<c>>

RECURSIVE escapeHtmlFrom(_, _)
escapeHtmlFrom(text, i) ==
    IF i > Len(text) THEN <<>> ELSE EscapeCharacter(text[i]) \o escapeHtmlFrom(text, i + 1)

escapeHtml(text) == escapeHtmlFrom(text, 1)

generateMetaTag(key, content) ==
    IF key = CharsetKey THEN Meta("charset", NoKey, escapeHtml(content))
    ELSE IF key.prefix = "http-equiv:"
         THEN Meta("http-equiv", [prefix |-> "", name |-> key.name], escapeHtml(content))
    ELSE IF key.prefix \in {"og:", "twitter:", "fb:"}
         THEN Meta("property", key, escapeHtml(content))
    ELSE Meta("name", key, escapeHtml(content))

\* parseMetaTag: the key and the content of a meta tag, the content being the text
\* between the quotes of the attribute.
parseMetaTag(tag) ==
    [key |-> IF tag.attr = "charset" THEN CharsetKey
             ELSE IF tag.attr = "http-equiv"
                  THEN [prefix |-> "http-equiv:", name |-> tag.key.name]
             ELSE tag.key,
     content |-> tag.content]

\* The first meta tag of the document with the key: its content, or null.
getExistingMetaContent(html, key) ==
    LET found == {i \in 1..Len(html) : html[i].kind = "meta" /\ parseMetaTag(html[i]).key = key}
    IN  IF found = {} THEN Undefined
        ELSE Defined(parseMetaTag(html[CHOOSE i \in found : \A j \in found : i <= j]).content)

\* The tokens of a sequence at the positions of a set, in order.
SelectPositions(seq, keep) ==
    [j \in 1..Cardinality(keep) |->
        seq[CHOOSE i \in keep : Cardinality({x \in keep : x <= i}) = j]]

\* The tag of a kind whose match of /<tag[^>]*>\s*/ covers position i: the tag at i, or
\* the tag before the whitespace run that i is in; 0 when there is none.
MatchStart(html, i, kind) ==
    LET before == {j \in 1..i : html[j].kind # "ws"}
        last == IF before = {} THEN 0 ELSE CHOOSE j \in before : \A x \in before : x <= j
    IN  IF last # 0 /\ html[last].kind = kind THEN last ELSE 0

\* html.replace(metaTagRegex, match => key matches ? '' : match)
removeExistingMetaTag(html, key) ==
    SelectPositions(html,
        {i \in 1..Len(html) :
            \/ MatchStart(html, i, "meta") = 0
            \/ parseMetaTag(html[MatchStart(html, i, "meta")]).key # key})

FirstPosition(html, token) ==
    LET found == {i \in 1..Len(html) : html[i] = token}
    IN  IF found = {} THEN 0 ELSE CHOOSE i \in found : \A j \in found : i <= j

InsertAt(html, index, tokens) ==
    SubSeq(html, 1, index) \o tokens \o SubSeq(html, index + 1, Len(html))

injectIntoHead(html, content) ==
    IF FirstPosition(html, HeadClose) # 0
    THEN InsertAt(html, FirstPosition(html, HeadClose) - 1,
                  Spaces(4) \o content \o <<Newline>> \o Spaces(2))
    ELSE IF FirstPosition(html, HeadOpen) # 0
    THEN InsertAt(html, FirstPosition(html, HeadOpen), <<Newline>> \o Spaces(4) \o content)
    ELSE IF FirstPosition(html, HtmlOpen) # 0
    THEN InsertAt(html, FirstPosition(html, HtmlOpen),
                  <<Newline>> \o Spaces(2) \o <<HeadOpen, Newline>> \o Spaces(4) \o content
                      \o <<Newline>> \o Spaces(2) \o <<HeadClose>>)
    ELSE <<HeadOpen, Newline>> \o Spaces(2) \o content \o <<Newline, HeadClose, Newline>> \o html

\* tagsToInject.map(generateMetaTag).join('\n    ')
RECURSIVE JoinMetaTags(_, _)
JoinMetaTags(tags, k) ==
    IF k > Len(tags) THEN <<>>
    ELSE (IF k > 1 THEN <<Newline>> \o Spaces(4) ELSE <<>>)
             \o <<generateMetaTag(tags[k].key, tags[k].content)>> \o JoinMetaTags(tags, k + 1)

\* The forEach over Object.entries(metaTags): the existing content is read from the
\* html given, the tags to replace are removed from modifiedHtml.
RECURSIVE CompareMetaTags(_, _, _, _)
CompareMetaTags(html, metaTags, k, acc) ==
    IF k > Len(metaTags) THEN acc
    ELSE LET existingContent == getExistingMetaContent(html, metaTags[k].key)
         IN  IF existingContent = Undefined
             THEN CompareMetaTags(html, metaTags, k + 1,
                     [acc EXCEPT !.tagsToInject = Append(@, metaTags[k])])
             ELSE IF existingContent[1] # metaTags[k].content
             THEN CompareMetaTags(html, metaTags, k + 1,
                     [modifiedHtml |-> removeExistingMetaTag(acc.modifiedHtml, metaTags[k].key),
                      tagsToInject |-> Append(acc.tagsToInject, metaTags[k])])
             ELSE CompareMetaTags(html, metaTags, k + 1, acc)

injectMetaTags(html, metaTags) ==
    LET compared == CompareMetaTags(html, metaTags, 1,
                                    [modifiedHtml |-> html, tagsToInject |-> <<>>])
    IN  IF Len(compared.tagsToInject) > 0
        THEN injectIntoHead(compared.modifiedHtml, JoinMetaTags(compared.tagsToInject, 1))
        ELSE compared.modifiedHtml

\* Meta keys: 'description', 'og:title', 'http-equiv:refresh' and 'charset'.
MetaKeys ==
    {[prefix |-> "", name |-> "description"], [prefix |-> "og:", name |-> "title"],
     [prefix |-> "http-equiv:", name |-> "refresh"], CharsetKey}

\* Meta values: two plain ones and two that escapeHtml rewrites.
MetaValues == {<<"a">>, <<"b">>, <<"&">>, <<"\"">>}

MetaEntries == [key : MetaKeys, content : MetaValues]

\* A Record<string, string> as the list of its entries in insertion order.
MetaRecords ==
    UNION {{m \in [1..n -> MetaEntries] : \A i, j \in 1..n : i # j => m[i].key # m[j].key} :
              n \in 0..MaxMeta}

\* A document with one existing tag per given content, all for 'description'.
DocumentWith(contents) ==
    <<HtmlOpen, HeadOpen, Newline>>
        \o [i \in 1..(2 * Len(contents)) |->
              IF i % 2 = 1
              THEN Meta("name", [prefix |-> "", name |-> "description"], contents[(i + 1) \div 2])
              ELSE Newline]
        \o <<HeadClose>>

\* The documents: without html element, without head, with an unclosed head, with an
\* empty head, and with one or two 'description' tags in the head.
Documents ==
    {<<>>, <<HtmlOpen>>, <<HtmlOpen, HeadOpen>>, DocumentWith(<<>>),
     DocumentWith(<<<<"a">>>>), DocumentWith(<<<<"b">>, <<"a">>>>),
     DocumentWith(<<<<"a">>, <<"b">>>>)}

InjectCalls == [method : {"injectMetaTags"}, html : Documents, metaTags : MetaRecords]

InjectInit == call \in InjectCalls /\ ret = NotReturned

\* injectMetaTags(html, metaTags): ret holds the documents of the successive passes.
InjectMetaTags ==
    /\ call.method = "injectMetaTags"
    /\ ~ret.returned
    /\ ret' = Return(<<injectMetaTags(call.html, call.metaTags)>>)
    /\ UNCHANGED call
    /\ UNCHANGED <<snapVars, crawlVars, blockVars, attemptVars, engineVars>>

\* injectMetaTags applied with the same map to the document it returned.
InjectMetaTagsAgain ==
    /\ call.method = "injectMetaTags"
    /\ ret.returned
    /\ Len(ret.value) = 1
    /\ ret' = Return(Append(ret.value, injectMetaTags(ret.value[1], call.metaTags)))
    /\ UNCHANGED call
    /\ UNCHANGED <<snapVars, crawlVars, blockVars, attemptVars, engineVars>>

InjectNext == InjectMetaTags \/ InjectMetaTagsAgain

\* ------------------------------------------------------------------ ContentMerger: applyMergedContent

\* A title element with the given text, matched by /<title[^>]*>([^<]*)<\/title>/i.
TitleTag(text) == [kind |-> "title", attr |-> "title", key |-> NoKey, content |-> text]

BodyOpen == Markup("<body>")

BodyClose == Markup("</body>")

\* The head and body fragments that are merged: a stylesheet link and a paragraph.
HeadFragment == <<Markup("<link rel=\"stylesheet\" href=\"/a.css\">")>>

BodyFragment == <<Markup("<p>a</p>")>>

EmptyString == <<>>

FirstTitle(html) ==
    LET found == {i \in 1..Len(html) : html[i].kind = "title"}
    IN  IF found = {} THEN 0 ELSE CHOOSE i \in found : \A j \in found : i <= j

injectTitle(html, title) ==
    LET titleTag == TitleTag(escapeHtmlFrom(title, 1))
    IN  IF FirstTitle(html) # 0
        THEN [html EXCEPT ![FirstTitle(html)] = titleTag]
        ELSE injectIntoHead(html, <<titleTag>>)

injectHeadContent(html, headContent) == injectIntoHead(html, headContent)

injectBodyContent(html, bodyContent) ==
    IF FirstPosition(html, BodyOpen) # 0
    THEN InsertAt(html, FirstPosition(html, BodyOpen), <<Newline>> \o bodyContent)
    ELSE html \o <<Newline>> \o bodyContent

applyMergedContent(html, mergedContent) ==
    LET titled == IF mergedContent.title # EmptyString
                  THEN injectTitle(html, mergedContent.title) ELSE html
        withMeta == IF Len(mergedContent.meta) > 0
                    THEN injectMetaTags(titled, mergedContent.meta) ELSE titled
        withHead == IF mergedContent.head # EmptyString
                    THEN injectHeadContent(withMeta, mergedContent.head) ELSE withMeta
    IN  IF mergedContent.body # EmptyString
        THEN injectBodyContent(withHead, mergedContent.body) ELSE withHead

\* The merged contents: with and without a title, with at most one meta entry, with
\* and without the head fragment and the body fragment.
MergedContents ==
    [title : {EmptyString, <<"t">>}, meta : {m \in MetaRecords : Len(m) <= 1},
     head : {EmptyString, HeadFragment}, body : {EmptyString, BodyFragment}]

\* The rendered documents: a head with or without a title and the head fragment, and
\* no body element or a body with or without the body fragment.
RenderedDocuments ==
    {<<HtmlOpen, HeadOpen>> \o title \o head \o <<HeadClose>> \o body :
        title \in {<<>>, <<TitleTag(<<"u">>)>>},
        head \in {<<>>, HeadFragment},
        body \in {<<>>, <<BodyOpen, BodyClose>>, <<BodyOpen>> \o BodyFragment \o <<BodyClose>>}}

ApplyCalls ==
    [method : {"applyMergedContent"}, html : RenderedDocuments, mergedContent : MergedContents]

ApplyInit == call \in ApplyCalls /\ ret = NotReturned

\* applyMergedContent(html, mergedContent): ret holds the documents of the successive
\* passes.
ApplyMergedContent ==
    /\ call.method = "applyMergedContent"
    /\ ~ret.returned
    /\ ret' = Return(<<applyMergedContent(call.html, call.mergedContent)>>)
    /\ UNCHANGED call
    /\ UNCHANGED <<snapVars, crawlVars, blockVars, attemptVars, engineVars>>

\* applyMergedContent applied with the same merged content to the document it returned.
ApplyMergedContentAgain ==
    /\ call.method = "applyMergedContent"
    /\ ret.returned
    /\ Len(ret.value) = 1
    /\ ret' = Return(Append(ret.value, applyMergedContent(ret.value[1], call.mergedContent)))
    /\ UNCHANGED call
    /\ UNCHANGED <<snapVars, crawlVars, blockVars, attemptVars, engineVars>>

ApplyNext == ApplyMergedContent \/ ApplyMergedContentAgain

\* ------------------------------------------------------------------ ContentMerger: merging the sources

\* A title element, matched by /<title\s*[^>]*>.*?<\/title>/.
TitleElement == [kind |-> "title", attr |-> "<title>t</title>", key |-> NoKey, content |-> <<>>]

\* The keys of the meta maps of the content records.
MergeKeys == {"description", "og:title"}

\* The meta maps over the keys in which every value is v.
MetaMapsOf(v) == UNION {[K -> {v}] : K \in SUBSET MergeKeys}

\* Object.assign(target, source)
ObjectAssign(target, source) ==
    [k \in (DOMAIN target) \cup (DOMAIN source) |->
        IF k \in DOMAIN source THEN source[k] ELSE target[k]]

OptionalBoolean == {Undefined, Defined(TRUE), Defined(FALSE)}

\* An object for inject.<type>: original, extracted and static may each be undefined.
ContentSources(payloads) ==
    [original : OptionalBoolean, extracted : OptionalBoolean,
     static : {Undefined} \cup {Defined(payload) : payload \in payloads}]

\* inject.<type> as mergeContent receives it: undefined, or such an object.
SourceConfigs(payloads) ==
    {Undefined} \cup {Defined(c) : c \in ContentSources(payloads)}

\* ContentSourceSchema.extend({ static: ... .optional() }).parse(raw): original defaults
\* to true, extracted to false, static stays as given.
ContentSourceParse(raw) ==
    [original |-> IF raw.original = Undefined THEN Defined(TRUE) ELSE raw.original,
     extracted |-> IF raw.extracted = Undefined THEN Defined(FALSE) ELSE raw.extracted,
     static |-> raw.static]

\* config?.source !== undefined ? config.source : injectDefaults.source, for the sources
\* original and extracted.
shouldInject(sourceConfig, source, injectDefaults) ==
    IF sourceConfig # Undefined /\ sourceConfig[1][source] # Undefined
    THEN sourceConfig[1][source][1]
    ELSE injectDefaults[source]

\* config?.static
configuredStatic(sourceConfig) ==
    IF sourceConfig = Undefined THEN Undefined ELSE sourceConfig[1].static

\* Truthiness of a string (or of a fragment, a string of tokens), and of an object.
TruthyString(text) == text # ""

TruthyFragment(fragment) == fragment # <<>>

TruthyObject(object) == TRUE

\* Truthiness of the static payload of a content type: a string for the title, an
\* object for the meta map, a fragment for head and body.
TruthyStatic(type, payload) ==
    CASE type = "title" -> TruthyString(payload)
      [] type = "meta" -> TruthyObject(payload)
      [] OTHER -> TruthyFragment(payload)

shouldInjectStaticByDefault(injectConfig, type, injectDefaults) ==
    /\ injectDefaults.static
    /\ configuredStatic(injectConfig[type]) # Undefined
    /\ TruthyStatic(type, configuredStatic(injectConfig[type])[1])

\* shouldInjectStatic && config?.static for inject[type], where shouldInjectStatic is
\* the payload itself when config.static is defined and injectDefaults.static otherwise.
shouldInjectStatic(injectConfig, type, injectDefaults) ==
    /\ IF configuredStatic(injectConfig[type]) # Undefined
       THEN TruthyStatic(type, configuredStatic(injectConfig[type])[1])
       ELSE injectDefaults.static
    /\ configuredStatic(injectConfig[type]) # Undefined
    /\ TruthyStatic(type, configuredStatic(injectConfig[type])[1])

TruthyTitle(title) == title # Undefined /\ TruthyString(title[1])

mergeTitleFirstWins(originalContent, extractedContent, injectDefaults, injectConfig) ==
    IF shouldInject(injectConfig.title, "original", injectDefaults)
           /\ TruthyTitle(originalContent.title)
    THEN originalContent.title
    ELSE IF shouldInject(injectConfig.title, "extracted", injectDefaults)
           /\ TruthyTitle(extractedContent.title)
    THEN extractedContent.title
    ELSE IF shouldInjectStatic(injectConfig, "title", injectDefaults)
    THEN configuredStatic(injectConfig.title)
    ELSE Undefined

mergeTitle(originalContent, extractedContent, injectDefaults, injectConfig) ==
    LET title1 == IF shouldInject(injectConfig.title, "original", injectDefaults)
                        /\ TruthyTitle(originalContent.title)
                  THEN originalContent.title ELSE Undefined
        title2 == IF shouldInject(injectConfig.title, "extracted", injectDefaults)
                        /\ TruthyTitle(extractedContent.title)
                  THEN extractedContent.title ELSE title1
    IN  IF shouldInjectStatic(injectConfig, "title", injectDefaults)
        THEN configuredStatic(injectConfig.title) ELSE title2

mergeMetaExtractedLast(originalContent, extractedContent, injectDefaults, injectConfig) ==
    LET meta1 == IF shouldInject(injectConfig.meta, "original", injectDefaults)
                 THEN originalContent.meta ELSE <<>>
        meta2 == IF shouldInjectStatic(injectConfig, "meta", injectDefaults)
                 THEN ObjectAssign(meta1, configuredStatic(injectConfig.meta)[1]) ELSE meta1
    IN  IF shouldInject(injectConfig.meta, "extracted", injectDefaults)
        THEN ObjectAssign(meta2, extractedContent.meta) ELSE meta2

mergeMeta(originalContent, extractedContent, injectDefaults, injectConfig) ==
    LET meta1 == IF shouldInject(injectConfig.meta, "original", injectDefaults)
                 THEN ObjectAssign(<<>>, originalContent.meta) ELSE <<>>
        meta2 == IF shouldInject(injectConfig.meta, "extracted", injectDefaults)
                 THEN ObjectAssign(meta1, extractedContent.meta) ELSE meta1
    IN  IF shouldInjectStatic(injectConfig, "meta", injectDefaults)
        THEN ObjectAssign(meta2, configuredStatic(injectConfig.meta)[1]) ELSE meta2

\* filterHeadContent: the meta tags and / or the title elements are removed, each with
\* the whitespace after it.
filterHeadContent(headContent, excludeMeta, excludeTitle) ==
    LET withoutMeta ==
            IF excludeMeta
            THEN SelectPositions(headContent,
                     {i \in 1..Len(headContent) : MatchStart(headContent, i, "meta") = 0})
            ELSE headContent
    IN  IF excludeTitle
        THEN SelectPositions(withoutMeta,
                 {i \in 1..Len(withoutMeta) : MatchStart(withoutMeta, i, "title") = 0})
        ELSE withoutMeta

\* parts.join('\n')
RECURSIVE JoinParts(_, _)
JoinParts(parts, k) ==
    IF k > Len(parts) THEN <<>>
    ELSE (IF k > 1 THEN <<Newline>> ELSE <<>>) \o parts[k] \o JoinParts(parts, k + 1)

\* config?.original === false
originalExcluded(sourceConfig) ==
    sourceConfig # Undefined /\ sourceConfig[1].original = Defined(FALSE)

mergeHeadUnfiltered(originalContent, extractedContent, injectDefaults, injectConfig) ==
    JoinParts(
        (IF shouldInject(injectConfig.head, "original", injectDefaults)
               /\ TruthyFragment(originalContent.head)
         THEN <<originalContent.head>> ELSE <<>>)
        \o (IF shouldInject(injectConfig.head, "extracted", injectDefaults)
               /\ TruthyFragment(extractedContent.head)
            THEN <<extractedContent.head>> ELSE <<>>)
        \o (IF shouldInjectStatic(injectConfig, "head", injectDefaults)
            THEN <<configuredStatic(injectConfig.head)[1]>> ELSE <<>>), 1)

mergeHead(originalContent, extractedContent, injectDefaults, injectConfig) ==
    JoinParts(
        (IF shouldInject(injectConfig.head, "original", injectDefaults)
               /\ TruthyFragment(originalContent.head)
         THEN IF originalExcluded(injectConfig.meta) \/ originalExcluded(injectConfig.title)
              THEN <<filterHeadContent(originalContent.head,
                                       originalExcluded(injectConfig.meta),
                                       originalExcluded(injectConfig.title))>>
              ELSE <<originalContent.head>>
         ELSE <<>>)
        \o (IF shouldInject(injectConfig.head, "extracted", injectDefaults)
               /\ TruthyFragment(extractedContent.head)
            THEN <<extractedContent.head>> ELSE <<>>)
        \o (IF shouldInjectStatic(injectConfig, "head", injectDefaults)
            THEN <<configuredStatic(injectConfig.head)[1]>> ELSE <<>>), 1)

mergeBody(originalContent, extractedContent, injectDefaults, injectConfig) ==
    JoinParts(
        (IF shouldInject(injectConfig.body, "original", injectDefaults)
               /\ TruthyFragment(originalContent.body)
         THEN <<originalContent.body>> ELSE <<>>)
        \o (IF shouldInject(injectConfig.body, "extracted", injectDefaults)
               /\ TruthyFragment(extractedContent.body)
            THEN <<extractedContent.body>> ELSE <<>>)
        \o (IF shouldInjectStatic(injectConfig, "body", injectDefaults)
            THEN <<configuredStatic(injectConfig.body)[1]>> ELSE <<>>), 1)

InjectDefaultsValues == [original : BOOLEAN, extracted : BOOLEAN, static : BOOLEAN]

\* A content record without content, and an inject configuration without entries.
EmptyContent == [title |-> Undefined, meta |-> <<>>, head |-> <<>>, body |-> <<>>]

EmptyInject == [title |-> Undefined, meta |-> Undefined, head |-> Undefined, body |-> Undefined]

\* inject.<type> of which only `original` matters: undefined, original true or false.
OriginalOnlyConfigs ==
    {Undefined} \cup
    {Defined([original |-> Defined(b), extracted |-> Defined(FALSE), static |-> Undefined]) :
        b \in BOOLEAN}

\* Head fragments of the original document: none, meta tag and link, title and meta tag.
OriginalHeads ==
    {<<>>,
     <<Meta("name", [prefix |-> "", name |-> "description"], <<"a">>), Newline, Markup("<link>")>>,
     <<TitleElement, Newline, Meta("name", [prefix |-> "", name |-> "description"], <<"a">>)>>}

MergeTitleCalls ==
    {[method |-> "mergeTitle",
      originalContent |-> [EmptyContent EXCEPT !.title = o],
      extractedContent |-> [EmptyContent EXCEPT !.title = e],
      injectDefaults |-> d,
      injectConfig |-> [EmptyInject EXCEPT !.title = c]] :
        o \in {Undefined, Defined(""), Defined("O")}, e \in {Undefined, Defined("E")},
        d \in InjectDefaultsValues, c \in SourceConfigs({"", "S"})}

MergeMetaCalls ==
    {[method |-> "mergeMeta",
      originalContent |-> [EmptyContent EXCEPT !.meta = o],
      extractedContent |-> [EmptyContent EXCEPT !.meta = e],
      injectDefaults |-> d,
      injectConfig |-> [EmptyInject EXCEPT !.meta = c]] :
        o \in MetaMapsOf("o"), e \in MetaMapsOf("e"),
        d \in InjectDefaultsValues, c \in SourceConfigs(MetaMapsOf("s"))}

MergeHeadCalls ==
    {[method |-> "mergeHead",
      originalContent |-> [EmptyContent EXCEPT !.head = o],
      extractedContent |-> [EmptyContent EXCEPT !.head = e],
      injectDefaults |-> d,
      injectConfig |-> [EmptyInject EXCEPT !.head = c, !.meta = m, !.title = t]] :
        o \in OriginalHeads, e \in {<<>>, <<Markup("<script>")>>},
        d \in InjectDefaultsValues, c \in SourceConfigs({<<Markup("<style>")>>}),
        m \in OriginalOnlyConfigs, t \in OriginalOnlyConfigs}

MergeBodyCalls ==
    {[method |-> "mergeBody",
      originalContent |-> [EmptyContent EXCEPT !.body = o],
      extractedContent |-> [EmptyContent EXCEPT !.body = e],
      injectDefaults |-> d,
      injectConfig |-> [EmptyInject EXCEPT !.body = c]] :
        o \in {<<>>, <<Markup("<p>")>>}, e \in {<<>>, <<Markup("<main>")>>},
        d \in InjectDefaultsValues, c \in SourceConfigs({<<>>, <<Markup("<footer>")>>})}

MergeInit ==
    /\ call \in MergeTitleCalls \cup MergeMetaCalls \cup MergeHeadCalls \cup MergeBodyCalls
    /\ ret = NotReturned

MergeTitle ==
    /\ call.method = "mergeTitle"
    /\ ~ret.returned
    /\ ret' = Return(mergeTitle(call.originalContent, call.extractedContent,
                                call.injectDefaults, call.injectConfig))
    /\ UNCHANGED call
    /\ UNCHANGED <<snapVars, crawlVars, blockVars, attemptVars, engineVars>>

MergeMeta ==
    /\ call.method = "mergeMeta"
    /\ ~ret.returned
    /\ ret' = Return(mergeMeta(call.originalContent, call.extractedContent,
                               call.injectDefaults, call.injectConfig))
    /\ UNCHANGED call
    /\ UNCHANGED <<snapVars, crawlVars, blockVars, attemptVars, engineVars>>

MergeHead ==
    /\ call.method = "mergeHead"
    /\ ~ret.returned
    /\ ret' = Return(mergeHead(call.originalContent, call.extractedContent,
                               call.injectDefaults, call.injectConfig))
    /\ UNCHANGED call
    /\ UNCHANGED <<snapVars, crawlVars, blockVars, attemptVars, engineVars>>

MergeBody ==
    /\ call.method = "mergeBody"
    /\ ~ret.returned
    /\ ret' = Return(mergeBody(call.originalContent, call.extractedContent,
                               call.injectDefaults, call.injectConfig))
    /\ UNCHANGED call
    /\ UNCHANGED <<snapVars, crawlVars, blockVars, attemptVars, engineVars>>

MergeNext == MergeTitle \/ MergeMeta \/ MergeHead \/ MergeBody

\* ------------------------------------------------------------------ attemptSnapshot, step by step

\* The attemptSnapshot activations that can run at once.
AttemptIds == {1, 2}

AttemptRoutes == {Page("a"), Page("b")}

ContentSourceKinds == {"static-file", "pre-javascript"}

\* The options shared by the calls: originalContentSource, cacheOriginalContent and
\* extraDelay. serveDir and route are always given.
SnapshotOptionValues ==
    [originalContentSource : ContentSourceKinds, cacheOriginalContent : BOOLEAN,
     extraDelay : {0, 250}]

\* const cacheKey = `${route}:${source}`
CacheKey(route, source) == <<route, source>>

CacheKeys == {CacheKey(r, k) : r \in AttemptRoutes, k \in ContentSourceKinds}

\* { title: undefined, meta: {}, head: undefined, body: undefined }
NoOriginalContent == [title |-> Undefined, meta |-> <<>>, head |-> Undefined, body |-> Undefined]

\* What parseHtmlContent or page.evaluate returns for the page of a route.
PageContentOf(route) ==
    [title |-> Defined(route), meta |-> <<>>, head |-> Defined("head"), body |-> Defined("body")]

NoResponse == [kind |-> "none", status |-> 0]

IdleAttempt ==
    [pc |-> "idle", route |-> <<>>, retried |-> FALSE, original |-> NoOriginalContent,
     extraction |-> "none", response |-> NoResponse, trace |-> <<>>, result |-> "none",
     page |-> "none", pagesOpened |-> 0, pagesClosed |-> 0, failedAt |-> "none"]

AttemptIdle ==
    /\ snapshotOptions = [originalContentSource |-> "static-file",
                          cacheOriginalContent |-> TRUE, extraDelay |-> 0]
    /\ attempts = [i \in AttemptIds |-> IdleAttempt]
    /\ contentCache = [k \in CacheKeys |-> Undefined]
    /\ extractLog = [k \in CacheKeys |-> 0]

AttemptInit ==
    /\ snapshotOptions \in SnapshotOptionValues
    /\ attempts = [i \in AttemptIds |-> IdleAttempt]
    /\ contentCache = [k \in CacheKeys |-> Undefined]
    /\ extractLog = [k \in CacheKeys |-> 0]

\* if (serveDir && route): only the attemptSnapshot of unnamed/part_011 extracts the
\* original content.
FirstStep == IF manager = "part_011" THEN "original" ELSE "goto"

\* const page = await this.context?.newPage()
NewPage(a) == [a EXCEPT !.page = "open", !.pagesOpened = @ + 1]

LeavePageOpen(a) == a

\* finally { await page.close(); }
ClosePage(a) == [a EXCEPT !.page = "closed", !.pagesClosed = @ + 1]

\* attemptSnapshot is called for a route: a page is opened.
AttemptSnapshot(i) ==
    /\ attempts[i].pc = "idle"
    /\ \E route \in AttemptRoutes :
          attempts' = [attempts EXCEPT ![i] = NewPage([IdleAttempt EXCEPT !.pc = FirstStep,
                                                                        !.route = route])]
    /\ UNCHANGED <<snapshotOptions, contentCache, extractLog>>
    /\ UNCHANGED <<snapVars, crawlVars, blockVars, pureVars, engineVars>>

\* extractOriginalContent up to its first await: the cached record is returned, or the
\* extraction (readFile, or page.goto before JavaScript) is started.
ExtractOriginalContent(i) ==
    /\ attempts[i].pc = "original"
    /\ \E key \in {CacheKey(attempts[i].route, snapshotOptions.originalContentSource)} :
          IF snapshotOptions.cacheOriginalContent /\ contentCache[key] # Undefined
          THEN /\ attempts' = [attempts EXCEPT ![i].pc = "goto",
                                               ![i].original = contentCache[key][1],
                                               ![i].extraction = "cached"]
               /\ UNCHANGED extractLog
          ELSE /\ attempts' = [attempts EXCEPT ![i].pc = "extracting"]
               /\ extractLog' = [extractLog EXCEPT ![key] = @ + 1]
    /\ UNCHANGED <<snapshotOptions, contentCache>>
    /\ UNCHANGED <<snapVars, crawlVars, blockVars, pureVars, engineVars>>

RethrowExtractError == [raised |-> TRUE, content |-> NoOriginalContent]

\* catch (error) { return { title: undefined, meta: {}, head: undefined, body: undefined } }
CatchExtractError == [raised |-> FALSE, content |-> NoOriginalContent]

\* The extraction settles: the file was read and parsed (the page was evaluated), or
\* the read (the navigation) failed. The record is cached when caching is enabled.
ExtractionSettles(i) ==
    /\ attempts[i].pc = "extracting"
    /\ \E ok \in BOOLEAN :
       \E extracted \in {IF ok THEN [raised |-> FALSE, content |-> PageContentOf(attempts[i].route)]
                         ELSE CatchExtractError} :
          IF extracted.raised
          THEN /\ attempts' = [attempts EXCEPT ![i] =
                                  ClosePage([attempts[i] EXCEPT !.pc = "failed",
                                                                !.result = "raised",
                                                                !.failedAt = "extraction",
                                                                !.extraction = "failed"])]
               /\ UNCHANGED contentCache
          ELSE /\ attempts' = [attempts EXCEPT ![i].pc = "goto",
                                               ![i].original = extracted.content,
                                               ![i].extraction = IF ok THEN "read" ELSE "failed"]
               /\ contentCache' =
                     IF snapshotOptions.cacheOriginalContent
                     THEN [contentCache EXCEPT
                              ![CacheKey(attempts[i].route,
                                         snapshotOptions.originalContentSource)] =
                                  Defined(extracted.content)]
                     ELSE contentCache
    /\ UNCHANGED <<snapshotOptions, extractLog>>
    /\ UNCHANGED <<snapVars, crawlVars, blockVars, pureVars, engineVars>>

AfterGotoUnchecked(o) == "settling"

\* if (!response) throw ...; if (response.status() !== 200) throw ...
AfterGoto(o) == IF AttemptSucceeds(o) THEN "settling" ELSE "failed"

\* response = await page.goto(url, ...): the navigation settles and the status is
\* checked; a failure is rethrown by the catch block and the page is closed.
Goto(i) ==
    /\ attempts[i].pc = "goto"
    /\ \E o \in AttemptOutcomes :
          attempts' = [attempts EXCEPT ![i] =
                          IF AfterGoto(o) = "failed"
                          THEN ClosePage([attempts[i] EXCEPT !.pc = "failed",
                                                             !.response = o,
                                                             !.trace = Append(@, "goto"),
                                                             !.failedAt = "goto",
                                                             !.result = "raised"])
                          ELSE [attempts[i] EXCEPT !.pc = AfterGoto(o),
                                                   !.response = o,
                                                   !.trace = Append(@, "goto")]]
    /\ UNCHANGED <<snapshotOptions, contentCache, extractLog>>
    /\ UNCHANGED <<snapVars, crawlVars, blockVars, pureVars, engineVars>>

\* if (extraDelay > 0) await page.waitForTimeout(extraDelay)
Settle(i) ==
    /\ attempts[i].pc = "settling"
    /\ attempts' = [attempts EXCEPT
                       ![i].pc = "extractContent",
                       ![i].trace = IF snapshotOptions.extraDelay > 0
                                    THEN Append(@, "delay") ELSE @]
    /\ UNCHANGED <<snapshotOptions, contentCache, extractLog>>
    /\ UNCHANGED <<snapVars, crawlVars, blockVars, pureVars, engineVars>>

\* extractContent(page) / extractMetadata(page): title and meta of the rendered page,
\* or page.evaluate raises (the page crashed): the catch block rethrows and the page
\* is closed.
ExtractContent(i) ==
    /\ attempts[i].pc = "extractContent"
    /\ \E ok \in BOOLEAN :
          attempts' = [attempts EXCEPT ![i] =
                          IF ok
                          THEN [attempts[i] EXCEPT !.pc = "pageContent",
                                                   !.trace = Append(@, "extractContent")]
                          ELSE ClosePage([attempts[i] EXCEPT !.pc = "failed",
                                                             !.failedAt = "extractContent",
                                                             !.result = "raised"])]
    /\ UNCHANGED <<snapshotOptions, contentCache, extractLog>>
    /\ UNCHANGED <<snapVars, crawlVars, blockVars, pureVars, engineVars>>

\* page.content(), strip, merge, and the return of the SnapshotResult.
ReturnSnapshot(i) ==
    /\ attempts[i].pc = "pageContent"
    /\ attempts' = [attempts EXCEPT ![i] =
                       ClosePage([attempts[i] EXCEPT !.pc = "returned",
                                                     !.trace = Append(@, "pageContent"),
                                                     !.result = "returned"])]
    /\ UNCHANGED <<snapshotOptions, contentCache, extractLog>>
    /\ UNCHANGED <<snapVars, crawlVars, blockVars, pureVars, engineVars>>

\* The retry loop of takeSnapshot calls attemptSnapshot again with the same arguments
\* (one retry is modelled).
RetryAttempt(i) ==
    /\ attempts[i].pc = "failed"
    /\ ~attempts[i].retried
    /\ attempts' = [attempts EXCEPT ![i] =
                       NewPage([attempts[i] EXCEPT !.pc = FirstStep,
                                                   !.retried = TRUE,
                                                   !.original = NoOriginalContent,
                                                   !.extraction = "none",
                                                   !.response = NoResponse,
                                                   !.trace = <<>>,
                                                   !.failedAt = "none",
                                                   !.result = "none"])]
    /\ UNCHANGED <<snapshotOptions, contentCache, extractLog>>
    /\ UNCHANGED <<snapVars, crawlVars, blockVars, pureVars, engineVars>>

AttemptNext ==
    \E i \in AttemptIds :
        \/ AttemptSnapshot(i)
        \/ ExtractOriginalContent(i)
        \/ ExtractionSettles(i)
        \/ Goto(i)
        \/ Settle(i)
        \/ ExtractContent(i)
        \/ ReturnSnapshot(i)
        \/ RetryAttempt(i)

\* ------------------------------------------------------------------ prerender

\* config.outDir and config.serveDir as configured: validateConfig compares the two
\* strings, and '' is the falsy value.
Dirs == {"", "dist", "prerendered"}

NoEngineError == [kind |-> "none", route |-> <<>>]

ConfigError(kind) == [kind |-> kind, route |-> <<>>]

RouteError(route) == [kind |-> "route", route |-> route]

NoResult == <<>>

StoppedEngine ==
    [pc |-> "off", outDir |-> "prerendered", serveDir |-> "dist", withBuild |-> FALSE,
     external |-> FALSE, concurrency |-> 1, server |-> "none", browser |-> "none",
     effects |-> <<>>, error |-> NoEngineError, result |-> NoResult]

EngineIdle ==
    /\ engine = StoppedEngine
    /\ pool = <<>>
    /\ snapshots = <<>>

\* The runs of prerender modelled: every pair of directories, with and without a
\* build command, with a server of its own or an existing one (serverUrl, or
\* startServer false with a serverPort), every sitemap of the diamond site, crawled
\* or not. this.server and this.browser are null at first.
EngineConfigs ==
    [pc : {"validate"}, outDir : Dirs, serveDir : Dirs, withBuild : BOOLEAN,
     external : BOOLEAN, concurrency : 1..MaxConcurrency,
     server : {"none"}, browser : {"none"},
     effects : {<<>>}, error : {NoEngineError}, result : {NoResult}]

PrerenderSites ==
    [site : {s \in LargeSites : s.name = "diamond"}, routes : {<<>>}, sitemap : Sitemaps,
     exclude : {<<>>},
     crawlLinks : BOOLEAN, depth : 0..MaxDepth, concurrency : 1..MaxConcurrency]

PrerenderInit ==
    /\ engine \in EngineConfigs
    /\ pool = <<>>
    /\ snapshots = <<>>
    /\ config \in PrerenderSites
    /\ crawlPc = "off"
    /\ routes = <<>>
    /\ visited = {}
    /\ discovered = {}
    /\ queue = <<>>
    /\ batch = <<>>
    /\ crawlLog = NoCrawlLog
    /\ finalRoutes = {}

SkipValidation(outDir, serveDir) == NoEngineError

\* validateConfig:39-53, called before the try block of prerender: the error leaves
\* prerender without reaching the catch or the finally clause.
ValidationError(outDir, serveDir) ==
    IF outDir = serveDir THEN ConfigError("same directory")
    ELSE IF serveDir = "" THEN ConfigError("no serve directory")
    ELSE IF outDir = "" THEN ConfigError("no output directory")
    ELSE NoEngineError

validateConfig ==
    /\ engine.pc = "validate"
    /\ \E error \in {ValidationError(engine.outDir, engine.serveDir)} :
          engine' = IF error = NoEngineError
                    THEN [engine EXCEPT !.pc = "build"]
                    ELSE [engine EXCEPT !.pc = "raised", !.error = error]
    /\ UNCHANGED <<pool, snapshots>>
    /\ UNCHANGED <<snapVars, crawlVars, blockVars, pureVars, attemptVars>>

StepError(step) == [kind |-> step, route |-> <<>>]

SkipCleanup(e) == e

\* cleanup:805-815: browser.close() when this.browser is set, server.stop() when
\* this.server is set. Closing a browser that was never launched and stopping a
\* server that never started change nothing.
Cleanup(e) ==
    [e EXCEPT !.browser = IF @ = "launched" THEN "closed" ELSE @,
              !.server = IF @ = "started" THEN "stopped" ELSE @,
              !.effects = @ \o <<"cleanup">>
                            \o (IF e.browser # "none" THEN <<"close">> ELSE <<>>)
                            \o (IF e.server # "none" THEN <<"stop">> ELSE <<>>)]

\* An error raised inside the try block: the catch clause logs and rethrows it, the
\* finally clause runs cleanup.
Raise(e, error) == Cleanup([e EXCEPT !.pc = "raised", !.error = error])

\* One awaited step of prerender that has an effect outside the engine, and may
\* raise.
EngineStep(from, effect, to) ==
    /\ engine.pc = from
    /\ \E ok \in BOOLEAN :
          engine' = IF ok
                    THEN [engine EXCEPT !.pc = to, !.effects = Append(@, effect)]
                    ELSE Raise(engine, StepError(effect))
    /\ UNCHANGED <<pool, snapshots>>
    /\ UNCHANGED <<snapVars, crawlVars, blockVars, pureVars, attemptVars>>

\* Step 0: if (this.config.withBuild && this.config.buildCommand)
runBuildCommand ==
    IF engine.withBuild
    THEN EngineStep("build", "build", "server")
    ELSE /\ engine.pc = "build"
         /\ engine' = [engine EXCEPT !.pc = "server"]
         /\ UNCHANGED <<pool, snapshots>>
         /\ UNCHANGED <<snapVars, crawlVars, blockVars, pureVars, attemptVars>>

\* startServer:136-160: with an existing server only baseUrl is set; otherwise
\* this.server is assigned and then started.
startServer ==
    /\ engine.pc = "server"
    /\ \E ok \in BOOLEAN :
          engine' = IF engine.external
                    THEN [engine EXCEPT !.pc = "browser"]
                    ELSE IF ok
                    THEN [engine EXCEPT !.pc = "browser", !.server = "started",
                                        !.effects = Append(@, "server")]
                    ELSE Raise([engine EXCEPT !.server = "created"], StepError("server"))
    /\ UNCHANGED <<pool, snapshots>>
    /\ UNCHANGED <<snapVars, crawlVars, blockVars, pureVars, attemptVars>>

\* initializeBrowser:162-173: this.browser is assigned and then launched.
initializeBrowser ==
    /\ engine.pc = "browser"
    /\ \E ok \in BOOLEAN :
          engine' = IF ok
                    THEN [engine EXCEPT !.pc = "copy", !.browser = "launched",
                                        !.effects = Append(@, "browser")]
                    ELSE Raise([engine EXCEPT !.browser = "created"], StepError("browser"))
    /\ UNCHANGED <<pool, snapshots>>
    /\ UNCHANGED <<snapVars, crawlVars, blockVars, pureVars, attemptVars>>

copyStaticAssets == EngineStep("copy", "copy", "routes")

\* Step 4: prerender calls getRoutes, whose steps are those of the crawl.
CallGetRoutes ==
    /\ engine.pc = "routes"
    /\ crawlPc = "off"
    /\ crawlPc' = "start"
    /\ UNCHANGED <<config, routes, visited, discovered, queue, batch, crawlLog,
                   finalRoutes>>
    /\ UNCHANGED <<snapVars, blockVars, pureVars, attemptVars, engineVars>>

RECURSIVE Unique(_)
Unique(seq) ==
    IF seq = <<>> THEN <<>>
    ELSE LET front == Unique(SubSeq(seq, 1, Len(seq) - 1))
         IN  IF seq[Len(seq)] \in Range(front) THEN front
             ELSE Append(front, seq[Len(seq)])

\* The orders in which a Set may have received the elements of s.
InsertionOrders(s) ==
    {order \in [1..Cardinality(s) -> s] : Range(order) = s}

\* The array getRoutes returns: [...new Set(...)] lists the seeds in their order and
\* then the crawled routes in the order crawlLinks discovered them.
RouteArrays ==
    LET seeds == Unique([i \in 1..Len(routes) |-> normalizeRoute(routes[i])])
    IN  {seeds \o order : order \in InsertionOrders(finalRoutes \ Range(seeds))}

AdmitAll(waiting, limit) == waiting

\* pLimit(n): of the calls handed to the limit, at most n run.
Admitted(waiting, limit) == IF waiting < limit THEN waiting ELSE limit

\* routes.map(route => limit(...)): every route becomes a task of the limit, which
\* starts as many as it admits.
processRoutes ==
    /\ engine.pc = "routes"
    /\ crawlPc = "done"
    /\ \E array \in RouteArrays :
          pool' = [i \in 1..Len(array) |->
                     [route |-> array[i],
                      status |-> IF i <= Admitted(Len(array), engine.concurrency)
                                 THEN "running" ELSE "pending"]]
    /\ engine' = [engine EXCEPT !.pc = "process"]
    /\ UNCHANGED snapshots
    /\ UNCHANGED <<snapVars, crawlVars, blockVars, pureVars, attemptVars>>

Running(tasks) == {i \in 1..Len(tasks) : tasks[i].status = "running"}

Pending(tasks) == {i \in 1..Len(tasks) : tasks[i].status = "pending"}

\* The limit after task i has settled with the given status: the call that waited
\* longest is started in its place.
Release(tasks, i, status) ==
    LET settled == [tasks EXCEPT ![i].status = status]
    IN  IF Pending(settled) = {} THEN settled
        ELSE [settled EXCEPT ![FirstMatch(Pending(settled))].status = "running"]

\* takeSnapshot returned for task i: snapshots.push(snapshot).
TaskSucceeds(i) ==
    /\ pool[i].status = "running"
    /\ pool' = Release(pool, i, "resolved")
    /\ snapshots' = Append(snapshots, pool[i].route)
    /\ UNCHANGED engine
    /\ UNCHANGED <<snapVars, crawlVars, blockVars, pureVars, attemptVars>>

SwallowTaskError == "resolved"

\* catch (error) { console.error(...); throw error; }
RethrowTaskError == "rejected"

\* takeSnapshot raised for task i after its retries. The first rejection rejects
\* Promise.all: processRoutes raises, prerender logs the error, rethrows it and runs
\* cleanup. The other tasks are not cancelled.
TaskFails(i) ==
    /\ pool[i].status = "running"
    /\ pool' = Release(pool, i, RethrowTaskError)
    /\ engine' = IF engine.pc = "process" /\ RethrowTaskError = "rejected"
                 THEN Raise(engine, RouteError(pool[i].route))
                 ELSE engine
    /\ UNCHANGED snapshots
    /\ UNCHANGED <<snapVars, crawlVars, blockVars, pureVars, attemptVars>>

\* Promise.all resolved: processRoutes returns the snapshots, and Step 6 writes them.
writeOutputFiles ==
    /\ \A i \in 1..Len(pool) : pool[i].status = "resolved"
    /\ EngineStep("process", "write", "feeds")

\* Step 7, the return of the CrawlResult and the cleanup of the finally clause.
generateNonHtmlFiles ==
    /\ engine.pc = "feeds"
    /\ \E ok \in BOOLEAN :
          engine' = IF ok
                    THEN Cleanup([engine EXCEPT !.pc = "returned", !.result = <<snapshots>>,
                                                !.effects = Append(@, "feeds")])
                    ELSE Raise(engine, StepError("feeds"))
    /\ UNCHANGED <<pool, snapshots>>
    /\ UNCHANGED <<snapVars, crawlVars, blockVars, pureVars, attemptVars>>

PrerenderNext ==
    \/ validateConfig
    \/ runBuildCommand
    \/ startServer
    \/ initializeBrowser
    \/ copyStaticAssets
    \/ CallGetRoutes
    \/ CrawlNext
    \/ processRoutes
    \/ \E i \in 1..Len(pool) : TaskSucceeds(i)
    \/ \E i \in 1..Len(pool) : TaskFails(i)
    \/ writeOutputFiles
    \/ generateNonHtmlFiles

\* ------------------------------------------------------------------ static files

\* A route or a path is a sequence of tokens: '/', a name, or the text '.html'.
RouteTokens == {"/", "a", ".html"}

StaticRoutes == UNION {[1..n -> RouteTokens] : n \in 0..MaxRouteLen}

IndexHtml == <<"index", ".html">>

\* The files the serve directory may hold, as paths below it.
SiteFiles ==
    {IndexHtml, <<"a", ".html">>, <<"a", "/">> \o IndexHtml, <<"a", "/", "a", ".html">>}

\* String.prototype.endsWith
EndsWith(str, suffix) ==
    Len(str) >= Len(suffix) /\ SubSeq(str, Len(str) - Len(suffix) + 1, Len(str)) = suffix

\* path.join(serveDir, ...): the joined path below serveDir, repeated separators
\* collapsed.
RECURSIVE PathBelow(_)
PathBelow(str) ==
    IF str = <<>> THEN <<>>
    ELSE LET front == PathBelow(SubSeq(str, 1, Len(str) - 1))
             last == str[Len(str)]
         IN  IF last = "/" /\ (front = <<>> \/ front[Len(front)] = "/") THEN front
             ELSE Append(front, last)

getFilePathFromRoute(route) ==
    IF route = <<"/">> \/ route = <<>> THEN IndexHtml
    ELSE LET cleanRoute == IF StartsWith(route, <<"/">>) THEN Tail(route) ELSE route
         IN  IF EndsWith(cleanRoute, <<"/">>)
             THEN PathBelow(cleanRoute \o <<"/">> \o IndexHtml)
             ELSE IF EndsWith(cleanRoute, <<".html">>)
             THEN PathBelow(cleanRoute)
             ELSE PathBelow(cleanRoute \o <<".html">>)

\* readFile raises for a path that is no file; the catch clause returns the empty
\* record.
extractFromStaticFile(route, files) ==
    LET filePath == getFilePathFromRoute(route)
    IN  IF filePath \in files THEN PageContentOf(filePath) ELSE NoOriginalContent

StaticFileCalls ==
    [method : {"getFilePathFromRoute", "extractFromStaticFile"},
     route : StaticRoutes, files : SUBSET SiteFiles]

StaticInit == call \in StaticFileCalls /\ ret = NotReturned

GetFilePathFromRoute ==
    /\ call.method = "getFilePathFromRoute"
    /\ ~ret.returned
    /\ ret' = Return(getFilePathFromRoute(call.route))
    /\ UNCHANGED call
    /\ UNCHANGED <<snapVars, crawlVars, blockVars, attemptVars, engineVars>>

ExtractFromStaticFile ==
    /\ call.method = "extractFromStaticFile"
    /\ ~ret.returned
    /\ ret' = Return(extractFromStaticFile(call.route, call.files))
    /\ UNCHANGED call
    /\ UNCHANGED <<snapVars, crawlVars, blockVars, attemptVars, engineVars>>

StaticNext == GetFilePathFromRoute \/ ExtractFromStaticFile

\* ------------------------------------------------------------------ extractLinksFromHtml

\* An href is a sequence of tokens: 'http', ':', '//', '/', '#', '-', a host name
\* ('host' is the host of the static server), the name 'a', or a whole entry of
\* skipProtocols.
skipProtocols == {"mailto:", "data:"}

HrefOrigins ==
    {<<"http", ":", "//", "host">>, <<"http", ":", "//", "other">>,
     <<"//", "host">>, <<"//", "other">>}

HrefFragments == {<<>>, <<"#", "a">>}

\* The hrefs of the anchors: absolute and protocol-relative URLs of both hosts,
\* absolute and relative paths, with and without a fragment, and URLs of the
\* skipped schemes.
Hrefs ==
    {o \o path \o f : o \in HrefOrigins,
                      path \in {<<>>, <<"/", "a">>, <<"/", "a", "/", "data:">>},
                      f \in HrefFragments}
    \cup
    ({path \o f : path \in {<<>>, <<"/", "a">>, <<"a">>, <<"http", "-", "a">>,
                            <<"a", "/", "data:", "a">>, <<"/", "a", "/", "data:">>},
                  f \in HrefFragments} \ {<<>>})
    \cup
    {<<s, "a">> : s \in skipProtocols}

\* The anchors of the page, in document order.
HtmlPages == UNION {[1..n -> Hrefs] : n \in 0..MaxAnchors}

BaseRoutes == {Root, Page("b"), <<"/", "b", "/">>}

BaseOrigin == [protocol |-> <<"http", ":">>, host |-> "host"]

\* The path of the base URL up to its last '/'.
BaseDirectory(route) ==
    LET slashes == {i \in 1..Len(route) : route[i] = "/"}
    IN  SubSeq(route, 1, CHOOSE i \in slashes : \A j \in slashes : j <= i)

\* new URL(href, baseUrl): the protocol, host and pathname of the resolved URL. A URL
\* of a skipped scheme has an opaque path and no host.
ParseUrl(href, baseRoute) ==
    LET pathOf(rest) == SplitFirst(rest, "#")
        absolute(rest) == IF pathOf(rest) = <<>> THEN Root ELSE pathOf(rest)
    IN  IF href[1] \in skipProtocols
        THEN [protocol |-> <<href[1]>>, host |-> "", pathname |-> pathOf(Tail(href))]
        ELSE IF StartsWith(href, <<"http", ":", "//">>)
        THEN [protocol |-> <<"http", ":">>, host |-> href[4],
              pathname |-> absolute(SubSeq(href, 5, Len(href)))]
        ELSE IF StartsWith(href, <<"//">>)
        THEN [protocol |-> BaseOrigin.protocol, host |-> href[2],
              pathname |-> absolute(SubSeq(href, 3, Len(href)))]
        ELSE [protocol |-> BaseOrigin.protocol, host |-> BaseOrigin.host,
              pathname |-> IF pathOf(href) = <<>> THEN baseRoute
                           ELSE IF href[1] = "/" THEN pathOf(href)
                           ELSE BaseDirectory(baseRoute) \o pathOf(href)]

UrlOrigin(url) == [protocol |-> url.protocol, host |-> url.host]

\* The tests of the loop body that make it continue without pushing a link.
SkipsHref(href, crawlSpecialProtocols) ==
    \/ StartsWith(href, <<"http">>) \/ StartsWith(href, <<"//">>)
    \/ StartsWith(href, <<"#">>)
    \/ /\ ~crawlSpecialProtocols
       /\ \/ \E protocol \in skipProtocols : StartsWith(href, <<protocol>>)
          \/ \E protocol \in skipProtocols : Includes(href, <<protocol>>)

PushesLink(href, baseRoute, crawlSpecialProtocols) ==
    LET url == ParseUrl(href, baseRoute)
    IN  /\ ~SkipsHref(href, crawlSpecialProtocols)
        /\ crawlSpecialProtocols \/ url.protocol = <<"http", ":">>
        /\ UrlOrigin(url) = BaseOrigin \/ crawlSpecialProtocols

extractLinksFromHtml(html, baseRoute, crawlSpecialProtocols) ==
    LET pushed == SelectSeq(html, LAMBDA href :
                               PushesLink(href, baseRoute, crawlSpecialProtocols))
    IN  [i \in 1..Len(pushed) |-> ParseUrl(pushed[i], baseRoute).pathname]

ExtractCalls ==
    [method : {"extractLinksFromHtml"}, html : HtmlPages, baseRoute : BaseRoutes,
     crawlSpecialProtocols : BOOLEAN]

ExtractInit == call \in ExtractCalls /\ ret = NotReturned

ExtractLinksFromHtml ==
    /\ call.method = "extractLinksFromHtml"
    /\ ~ret.returned
    /\ ret' = Return(extractLinksFromHtml(call.html, call.baseRoute,
                                          call.crawlSpecialProtocols))
    /\ UNCHANGED call
    /\ UNCHANGED <<snapVars, crawlVars, blockVars, attemptVars, engineVars>>

ExtractNext == ExtractLinksFromHtml

\* ------------------------------------------------------------------ cli: configuration priority

\* The configuration fields whose options are modelled.
CliFields == {"serveDir", "outDir", "strip", "startServer", "verbose"}

\* The defaults that yargs is given for the options.
CliDefaults ==
    [serveDir |-> "dist", outDir |-> "prerendered", strip |-> <<>>,
     startServer |-> TRUE, verbose |-> FALSE]

\* The configurations that loadConfig can return.
ConfigFiles ==
    [serveDir : {"dist", "build"}, outDir : {"prerendered", "out"},
     strip : {<<>>, <<"title">>}, startServer : BOOLEAN, verbose : BOOLEAN]

\* One option as it is written on the command line: its tokens, the field that yargs
\* fills from it and what yargs parses from it alone.
CliArguments ==
    {[tokens |-> <<"--serve-dir", "public">>, field |-> "serveDir",
      parsed |-> [CliDefaults EXCEPT !.serveDir = "public"]],
     [tokens |-> <<"-s", "public">>, field |-> "serveDir",
      parsed |-> [CliDefaults EXCEPT !.serveDir = "public"]],
     [tokens |-> <<"--out-dir", "static">>, field |-> "outDir",
      parsed |-> [CliDefaults EXCEPT !.outDir = "static"]],
     [tokens |-> <<"-o", "static">>, field |-> "outDir",
      parsed |-> [CliDefaults EXCEPT !.outDir = "static"]],
     [tokens |-> <<"--strip", "meta">>, field |-> "strip",
      parsed |-> [CliDefaults EXCEPT !.strip = <<"meta">>]],
     [tokens |-> <<"--start-server">>, field |-> "startServer",
      parsed |-> [CliDefaults EXCEPT !.startServer = TRUE]],
     [tokens |-> <<"--verbose">>, field |-> "verbose",
      parsed |-> [CliDefaults EXCEPT !.verbose = TRUE]],
     [tokens |-> <<"-v">>, field |-> "verbose",
      parsed |-> [CliDefaults EXCEPT !.verbose = TRUE]]}

\* Command lines of at most MaxArgs options, no option given twice.
CommandLines ==
    UNION {{line \in [1..n -> CliArguments] :
                \A i, j \in 1..n : i # j => line[i].field # line[j].field} : n \in 0..MaxArgs}

\* process.argv.slice(2)
RECURSIVE originalArgv(_)
originalArgv(line) ==
    IF line = <<>> THEN <<>> ELSE Head(line).tokens \o originalArgv(Tail(line))

\* originalArgv.join(' ')
RECURSIVE JoinArgv(_)
JoinArgv(tokens) ==
    IF tokens = <<>> THEN ""
    ELSE IF Len(tokens) = 1 THEN tokens[1]
    ELSE tokens[1] \o " " \o JoinArgv(Tail(tokens))

argvString(line) == JoinArgv(originalArgv(line))

\* The argv object of yargs: the value of an option that is given, its default otherwise.
ParsedArgv(line) ==
    [f \in CliFields |->
        IF \E i \in 1..Len(line) : line[i].field = f
        THEN (CHOOSE a \in Range(line) : a.field = f).parsed[f]
        ELSE CliDefaults[f]]

NoShortArg == ""

hasArg(line, arg, shortArg) ==
    \/ Includes(argvString(line), "--" \o arg)
    \/ (shortArg # NoShortArg /\ Includes(argvString(line), "-" \o shortArg))

\* The fields that cliOverrides holds.
cliOverrides(line) ==
    (IF hasArg(line, "serve-dir", "s") THEN {"serveDir"} ELSE {})
        \cup (IF hasArg(line, "out-dir", "o") THEN {"outDir"} ELSE {})
        \cup (IF hasArg(line, "strip", NoShortArg) THEN {"strip"} ELSE {})
        \cup (IF hasArg(line, "start-server", NoShortArg) THEN {"startServer"} ELSE {})
        \cup (IF hasArg(line, "verbose", "v") THEN {"verbose"} ELSE {})

\* config = { ...config, ...cliOverrides }
ApplyOverrides(file, line) ==
    [f \in CliFields |->
        IF f \in cliOverrides(line) THEN ParsedArgv(line)[f] ELSE file[f]]

CliCalls == [method : {"main"}, argv : CommandLines, file : ConfigFiles]

CliInit == call \in CliCalls /\ ret = NotReturned

\* main(): the configuration that the engine is given.
Main ==
    /\ call.method = "main"
    /\ ~ret.returned
    /\ ret' = Return(ApplyOverrides(call.file, call.argv))
    /\ UNCHANGED call
    /\ UNCHANGED <<snapVars, crawlVars, blockVars, attemptVars, engineVars>>

CliNext == Main

\* ------------------------------------------------------------------ specifications

SnapIdle ==
    /\ options = [retry |-> 0, waitUntil |-> "load", autoFallbackNetworkIdle |-> TRUE]
    /\ pc = "off"
    /\ attempt = 0
    /\ attemptedFallback = FALSE
    /\ currentWaitUntil = "load"
    /\ lastError = NoError
    /\ navigations = <<>>
    /\ outcome = NoOutcome

InitSnapshot == manager \in Managers /\ SnapInit /\ CrawlIdle /\ BlockIdle /\ PureIdle
    /\ AttemptIdle /\ EngineIdle

SpecSnapshot == InitSnapshot /\ [][SnapNext]_vars

FairSpecSnapshot == SpecSnapshot /\ WF_vars(SnapNext)

InitCrawl == manager = "part_011" /\ SnapIdle /\ CrawlInit /\ BlockIdle /\ PureIdle
    /\ AttemptIdle /\ EngineIdle

SpecCrawl == InitCrawl /\ [][CrawlNext]_vars

\* Every fetch eventually returns or fails, and the steps of crawlLinks between the
\* awaits are taken.
FairSpecCrawl == SpecCrawl /\ WF_vars(CrawlNext)

InitBlock == manager \in Managers /\ SnapIdle /\ CrawlIdle /\ BlockInit /\ PureIdle
    /\ AttemptIdle /\ EngineIdle

SpecBlock == InitBlock /\ [][BlockNext]_vars

InitResolve == manager = "part_011" /\ SnapIdle /\ CrawlIdle /\ BlockIdle /\ ResolveInit
    /\ AttemptIdle /\ EngineIdle

SpecResolve == InitResolve /\ [][ResolveNext]_vars

InitNormalize == manager = "part_011" /\ SnapIdle /\ CrawlIdle /\ BlockIdle /\ NormalizeInit
    /\ AttemptIdle /\ EngineIdle

SpecNormalize == InitNormalize /\ [][NormalizeNext]_vars

InitInject == manager = "part_011" /\ SnapIdle /\ CrawlIdle /\ BlockIdle /\ InjectInit
    /\ AttemptIdle /\ EngineIdle

SpecInject == InitInject /\ [][InjectNext]_vars

InitMerge == manager = "part_011" /\ SnapIdle /\ CrawlIdle /\ BlockIdle /\ MergeInit
    /\ AttemptIdle /\ EngineIdle

SpecMerge == InitMerge /\ [][MergeNext]_vars

InitAttempt == manager \in Managers /\ SnapIdle /\ CrawlIdle /\ BlockIdle /\ PureIdle
    /\ AttemptInit /\ EngineIdle

SpecAttempt == InitAttempt /\ [][AttemptNext]_vars

InitPrerender ==
    /\ manager = "part_011" /\ SnapIdle /\ BlockIdle /\ PureIdle /\ AttemptIdle
    /\ PrerenderInit

SpecPrerender == InitPrerender /\ [][PrerenderNext]_vars

InitStatic ==
    /\ manager = "part_011" /\ SnapIdle /\ CrawlIdle /\ BlockIdle /\ StaticInit
    /\ AttemptIdle /\ EngineIdle

SpecStatic == InitStatic /\ [][StaticNext]_vars

InitExtract ==
    /\ manager = "part_011" /\ SnapIdle /\ CrawlIdle /\ BlockIdle /\ ExtractInit
    /\ AttemptIdle /\ EngineIdle

SpecExtract == InitExtract /\ [][ExtractNext]_vars

InitCli ==
    /\ manager = "part_011" /\ SnapIdle /\ CrawlIdle /\ BlockIdle /\ CliInit
    /\ AttemptIdle /\ EngineIdle

SpecCli == InitCli /\ [][CliNext]_vars

InitApply ==
    /\ manager = "part_011" /\ SnapIdle /\ CrawlIdle /\ BlockIdle /\ ApplyInit
    /\ AttemptIdle /\ EngineIdle

SpecApply == InitApply /\ [][ApplyNext]_vars

\* ------------------------------------------------------------------ claims: takeSnapshot

NavCount == Len(navigations)

\* The positions at which the wait strategy changes from 'networkidle' to 'load'.
SwitchPositions ==
    {i \in 1..(NavCount - 1) :
        navigations[i].waitUntil = "networkidle" /\ navigations[i + 1].waitUntil = "load"}

\* The retry slots (values of the loop counter) that navigations were made in.
SlotsUsed == {navigations[i].attempt : i \in 1..NavCount}

FallbackConfigured == options.autoFallbackNetworkIdle /\ options.waitUntil = "networkidle"

\* C1: with auto-fallback on and 'networkidle' configured, the strategy switches to
\* 'load' at most once and never back, the attempt after the switch runs in the same
\* retry slot as the attempt that timed out, and every attempt made under 'load' that
\* is followed by another one has consumed a slot.
C1_FallbackAtMostOnceAndUncounted ==
    (pc # "idle" /\ FallbackConfigured) =>
        /\ Cardinality(SwitchPositions) <= 1
        /\ \A i \in 1..NavCount : \A j \in i..NavCount :
              navigations[i].waitUntil = "load" => navigations[j].waitUntil = "load"
        /\ \A i \in SwitchPositions : navigations[i + 1].attempt = navigations[i].attempt
        /\ \A i \in 1..(NavCount - 1) :
              navigations[i].waitUntil = "load"
                  => navigations[i + 1].attempt = navigations[i].attempt + 1

\* A switch happened, the attempt after it timed out under 'load', and one more
\* attempt followed.
C1_Witness ==
    /\ FallbackConfigured
    /\ \E i \in SwitchPositions :
          /\ NavCount >= i + 2
          /\ navigations[i + 1].outcome.kind = "timeout"

\* C2: with auto-fallback on and 'networkidle' configured, an acquisition that saw a
\* timeout has made a later attempt under 'load' by the time it ends.
C2_FirstTimeoutAlwaysFallsBack ==
    (pc = "done" /\ FallbackConfigured) =>
        \A i \in 1..NavCount :
            navigations[i].outcome.kind = "timeout" =>
                \E j \in (i + 1)..NavCount : navigations[j].waitUntil = "load"

\* The counted attempts are at most retry + 1, at most one navigation is uncounted
\* and only when the fallback fired, and a finished call returned or raised.
C3_Bounded ==
    /\ Cardinality(SlotsUsed) <= options.retry + 1
    /\ NavCount <= options.retry + 2
    /\ NavCount - Cardinality(SlotsUsed) <= 1
    /\ NavCount - Cardinality(SlotsUsed) = 1 => SwitchPositions # {}
    /\ pc = "done" => outcome.kind \in {"returned", "raised"}

\* C3: one takeSnapshot call makes at most retry + 1 counted navigations plus at most
\* one uncounted navigation after a fallback, and it always ends, returning or raising.
C3_AttemptsBoundedAndTerminates == []C3_Bounded /\ <>(pc = "done")

\* The call raised after retry + 2 navigations.
C3_Witness ==
    /\ pc = "done"
    /\ outcome.kind = "raised"
    /\ options.retry >= 1
    /\ NavCount = options.retry + 2

\* C4: a successful attempt is the last navigation and its result is what is returned;
\* a failure is raised only when every retry slot was used and every navigation failed,
\* and it carries the error of the last navigation with that response's status and text.
C4_FirstSuccessOrLastError ==
    /\ \A i \in 1..NavCount :
          AttemptSucceeds(navigations[i].outcome) => (i = NavCount /\ pc = "done")
    /\ outcome.kind = "returned" =>
          /\ NavCount >= 1
          /\ AttemptSucceeds(navigations[NavCount].outcome)
          /\ outcome.nav = NavCount
          /\ outcome.statusCode = navigations[NavCount].outcome.status
    /\ outcome.kind = "raised" =>
          /\ NavCount >= 1
          /\ \A i \in 1..NavCount : ~AttemptSucceeds(navigations[i].outcome)
          /\ SlotsUsed = 0..options.retry
          /\ outcome.error.cause = (IF navigations[NavCount].outcome.kind = "response"
                                    THEN "http" ELSE navigations[NavCount].outcome.kind)
          /\ outcome.error.status = navigations[NavCount].outcome.status
          /\ outcome.error.statusText =
                (IF navigations[NavCount].outcome.kind = "response"
                 THEN StatusText(navigations[NavCount].outcome.status) ELSE "")

\* The call raised after a timeout followed by a last attempt answered with 404.
C4_Witness ==
    /\ outcome.kind = "raised"
    /\ NavCount >= 2
    /\ navigations[1].outcome.kind = "timeout"
    /\ navigations[NavCount].outcome = [kind |-> "response", status |-> 404]
    /\ outcome.error.status = 404

\* C38: the wait strategy changes only through the network-idle fallback: an attempt
\* uses the configured strategy when auto-fallback is off, when the configured
\* strategy is not 'networkidle', and as long as no earlier attempt timed out.
C38_StrategyChangesOnlyOnTimeout ==
    \A i \in 1..NavCount :
        (\/ ~options.autoFallbackNetworkIdle
         \/ options.waitUntil # "networkidle"
         \/ \A j \in 1..(i - 1) : navigations[j].outcome.kind # "timeout")
        => navigations[i].waitUntil = options.waitUntil

\* ------------------------------------------------------------------ claims: route resolution

FetchCount(r) ==
    Cardinality({i \in 1..Len(crawlLog.fetched) : crawlLog.fetched[i].route = r})

SeedSet == {normalizeRoute(routes[i]) : i \in 1..Len(routes)}

\* The routes linked from a page of `from` that pass the exclusion filter.
LinkedFrom(from) ==
    {l \in UNION {{normalizeRoute(h) : h \in Range(SiteLinks(config.site, p))} :
                      p \in from \cap AllPages} : ~isExcluded(l)}

RECURSIVE Within(_)
\* The seeds and the routes reachable from them by at most k links through crawled
\* (non-excluded or seed) pages.
Within(k) == IF k = 0 THEN SeedSet ELSE Within(k - 1) \cup LinkedFrom(Within(k - 1))

\* C5: no normalized route is fetched more than once during one crawl.
C5_NoRouteFetchedTwice == \A r \in AllPages : FetchCount(r) <= 1

\* C6: when no crawl fetch failed, the set crawlLinks returns is the set of
\* non-excluded non-seed routes within maxDepth links of a seed.
C6_DiscoveredIsReachableSet ==
    (crawlPc = "done" /\ config.crawlLinks /\ crawlLog.failed = {}) =>
        discovered = Within(config.depth) \ SeedSet

\* C7: every queued or running entry has a depth in 0..maxDepth, only entries of depth
\* below maxDepth are fetched, every discovered route was given a depth in 1..maxDepth,
\* and with maxDepth = 0 nothing is fetched or discovered.
C7_DepthBounded ==
    /\ \A i \in 1..Len(queue) : queue[i].depth \in 0..config.depth
    /\ \A i \in 1..Len(batch) : batch[i].depth \in 0..config.depth
    /\ \A i \in 1..Len(crawlLog.fetched) : crawlLog.fetched[i].depth < config.depth
    /\ \A d \in discovered :
          /\ \E a \in crawlLog.assigned : a.route = d /\ a.from # <<>>
          /\ \A a \in crawlLog.assigned : a.route = d => a.depth \in 1..config.depth
    /\ config.depth = 0 => (crawlLog.fetched = <<>> /\ discovered = {})

\* The crawl is over, and a route found at depth maxDepth >= 2 was never fetched.
C7_Witness ==
    /\ crawlPc = "done"
    /\ config.depth >= 2
    /\ \E a \in crawlLog.assigned :
          a.depth = config.depth /\ a.route \in discovered /\ FetchCount(a.route) = 0

\* C8: a failed crawl fetch never makes route resolution raise or stop: the crawl can
\* always go on until it returns, links are only taken from pages whose fetch
\* succeeded, and at the end every queued route below maxDepth was fetched and every
\* seed is in the final route set.
C8_FailureNeverAborts ==
    /\ crawlPc # "raised"
    /\ crawlPc # "done" => ENABLED CrawlNext
    /\ \A a \in crawlLog.assigned : a.from # <<>> => a.from \in crawlLog.succeeded
    /\ crawlPc = "done" =>
          /\ queue = <<>>
          /\ config.crawlLinks =>
                \A a \in crawlLog.assigned : a.depth < config.depth => FetchCount(a.route) >= 1
          /\ SeedSet \subseteq finalRoutes

\* The crawl returned although the fetch of a seed failed, after a later fetch of
\* another route succeeded; the failed seed is in the final set.
C8_Witness ==
    /\ crawlPc = "done"
    /\ \E s \in SeedSet \cap crawlLog.failed :
          /\ s \notin crawlLog.succeeded
          /\ s \in finalRoutes
          /\ \E i \in 1..Len(crawlLog.fetched), j \in 1..Len(crawlLog.fetched) :
                /\ i < j
                /\ crawlLog.fetched[i].route = s
                /\ crawlLog.fetched[j].route \in crawlLog.succeeded

\* C9: no route matching an exclusion pattern is fetched during the crawl or is in the
\* final route set.
C9_NoExcludedRoute ==
    /\ \A i \in 1..Len(crawlLog.fetched) : ~isExcluded(crawlLog.fetched[i].route)
    /\ crawlPc = "done" => \A r \in finalRoutes : ~isExcluded(r)

\* The crawl in which the fetches of every wave complete in the order of the wave and
\* none fails: what the tasks of a wave from the k-th on add, and the set discovered
\* when the queue is empty.
RECURSIVE WaveInOrder(_, _, _)
WaveInOrder(wave, k, acc) ==
    IF k > Len(wave) THEN acc
    ELSE WaveInOrder(wave, k + 1,
            IF DepthExhausted(wave[k].depth, config.depth) THEN acc
            ELSE AddLinks(SiteLinks(config.site, wave[k].route), 1, wave[k], acc))

RECURSIVE CrawlInOrder(_)
CrawlInOrder(acc) ==
    IF acc.queue = <<>> THEN acc.discovered
    ELSE LET n == IF Len(acc.queue) < config.concurrency
                  THEN Len(acc.queue) ELSE config.concurrency
         IN  CrawlInOrder(WaveInOrder(SubSeq(acc.queue, 1, n), 1,
                 [acc EXCEPT !.queue = SubSeq(acc.queue, n + 1, Len(acc.queue))]))

DiscoveredInOrder ==
    CrawlInOrder([visited |-> SeedSet, discovered |-> {}, assigned |-> {},
                  queue |-> [i \in 1..Len(routes) |->
                                [route |-> normalizeRoute(routes[i]), depth |-> 0]]])

\* C33: the set crawlLinks returns does not depend on the order in which the fetches
\* of a wave complete: every crawl without a failed fetch discovers the routes that
\* the crawl with in-order completion discovers.
C33_CompletionOrderIrrelevant ==
    (crawlPc = "done" /\ config.crawlLinks /\ crawlLog.failed = {}) =>
        discovered = DiscoveredInOrder

\* C37: crawlLinks terminates for every link graph, cycles and self-links included, for
\* every depth and concurrency, when every fetch eventually returns or fails: the queue
\* becomes empty and getRoutes returns.
C37_CrawlTerminates == <>(crawlPc = "done" /\ queue = <<>> /\ batch = <<>>)

\* The crawl of a site whose root links to itself and whose pages '/a' and '/b' link
\* to each other has ended after fetching all three.
C37_Witness ==
    /\ crawlPc = "done"
    /\ config.site.name = "small"
    /\ Root \in config.site.links[Root]
    /\ Page("a") \in config.site.links[Root]
    /\ Page("b") \in config.site.links[Page("a")]
    /\ Page("a") \in config.site.links[Page("b")]
    /\ crawlLog.succeeded = Range(SmallPages)

\* ------------------------------------------------------------------ claims: domain blocking

\* C10: the rules of one acquisition never decide the requests of another one, and
\* they stay in effect for its own requests while it runs: every request is decided by
\* the acquisition's own rule, the global rule or no rule, and a request to a host on
\* the acquisition's own block list is blocked.
C10_RulesIsolated ==
    \A a \in AcquisitionIds :
        /\ requestLog[a].by \in {a, GlobalRule, NoRule}
        /\ shouldBlock(acquisitions[a].blockDomains, requestLog[a].host)
              => requestLog[a].blocked


\* C11: once an acquisition that installed rules of its own is over, none of its rules
\* is registered any more, and when no acquisition is in progress the handlers of the
\* shared context are exactly what launch() installed: the global rule when a global
\* list is configured, nothing otherwise.
C11_RulesRestored ==
    /\ \A a \in AcquisitionIds :
          acquisitions[a].pc = "done" =>
              /\ acquisitions[a].pageRoutes = <<>>
              /\ \A i \in 1..Len(contextRoutes) : contextRoutes[i].owner # a
    /\ (\A a \in AcquisitionIds : acquisitions[a].pc \in {"idle", "done"})
          => contextRoutes = LaunchRoutes(blockGlobal)


\* ------------------------------------------------------------------ claims: route-specific configuration

\* The overrides of the call that are exact matches, matching non-'*' wildcard
\* patterns, and '*' entries.
ExactOverrides ==
    {call.config.routeConfig[i] : i \in {j \in 1..Len(call.config.routeConfig) :
        call.config.routeConfig[j].route = call.route}}

PatternOverrides ==
    {call.config.routeConfig[i] : i \in {j \in 1..Len(call.config.routeConfig) :
        /\ call.config.routeConfig[j].route # <<"*">>
        /\ call.config.routeConfig[j].route # call.route
        /\ Includes(call.config.routeConfig[j].route, <<"*">>)
        /\ RegExpTest(call.config.routeConfig[j].route, 1, call.route, 1)}}

GlobalOverrides ==
    {call.config.routeConfig[i] : i \in {j \in 1..Len(call.config.routeConfig) :
        call.config.routeConfig[j].route = <<"*">>}}

\* The tier of a result of getRouteConfig for the route of the call.
Tier(result) ==
    IF result = Undefined THEN "none"
    ELSE IF result[1].route = call.route THEN "exact"
    ELSE IF result[1].route = <<"*">> THEN "global"
    ELSE "pattern"

Reorderings(configs) ==
    {[i \in 1..Len(configs) |-> configs[f[i]]] : f \in Permutations(1..Len(configs))}

\* C12: getRouteConfig returns an exact-match override when there is one, otherwise a
\* matching wildcard pattern other than '*', otherwise a '*' override, otherwise
\* nothing; and the tier of the result is the same for every order of the entries.
C12_RouteConfigPriority ==
    (call.method = "getRouteConfig" /\ ret.returned) =>
        /\ IF ExactOverrides # {} THEN ret.value # Undefined /\ ret.value[1] \in ExactOverrides
           ELSE IF PatternOverrides # {}
                THEN ret.value # Undefined /\ ret.value[1] \in PatternOverrides
           ELSE IF GlobalOverrides # {}
                THEN ret.value # Undefined /\ ret.value[1] \in GlobalOverrides
           ELSE ret.value = Undefined
        /\ \A reordered \in Reorderings(call.config.routeConfig) :
              Tier(getRouteConfig(reordered, call.route)) = Tier(ret.value)

\* The overrides are '*', '/a/*', '/a/b' in this order and '/a/c' resolved to '/a/*'.
C12_Witness ==
    /\ call.method = "getRouteConfig"
    /\ ret.returned
    /\ Len(call.config.routeConfig) = 3
    /\ call.config.routeConfig[1].route = <<"*">>
    /\ call.config.routeConfig[2].route = <<"/", "a", "/", "*">>
    /\ call.config.routeConfig[3].route = <<"/", "a", "/", "b">>
    /\ call.route = <<"/", "a", "/", "c">>
    /\ ret.value # Undefined
    /\ ret.value[1] = call.config.routeConfig[2]


EffectiveFields == {"waitUntil", "timeout", "extraDelay", "blockDomains", "retry", "strip", "inject"}

\* C13: every field of the effective configuration is the value the chosen override
\* defines for it, zero and empty values included, and the global value only when the
\* chosen override does not define the field or no override is chosen.
C13_EffectiveConfigPerField ==
    (call.method = "getEffectiveConfig" /\ ret.returned) =>
        \A field \in EffectiveFields :
            \E chosen \in {getRouteConfig(call.config.routeConfig, call.route)} :
                IF chosen # Undefined /\ chosen[1][field] # Undefined
                THEN ret.value[field] = chosen[1][field][1]
                ELSE ret.value[field] = call.config[field]


\* ------------------------------------------------------------------ claims: normalizeRoute

\* C14: normalizeRoute returns for every string: its result starts with '/', holds no
\* '?' and no '#', and is returned unchanged when it is normalized again.
C14_NormalizeTotalIdempotent ==
    (call.method = "normalizeRoute" /\ ret.returned) =>
        /\ ret.value[1] # Undefined
        /\ StartsWith(ret.value[1][1], <<"/">>)
        /\ ~Includes(ret.value[1][1], <<"?">>)
        /\ ~Includes(ret.value[1][1], <<"#">>)
        /\ Len(ret.value) = 2 => ret.value[2] = ret.value[1]


\* ------------------------------------------------------------------ claims: ContentMerger

\* C15: injecting the same meta map into the document a first injection returned
\* gives back that document unchanged.
C15_InjectMetaIdempotent ==
    (call.method = "injectMetaTags" /\ ret.returned /\ Len(ret.value) = 2) =>
        ret.value[2] = ret.value[1]

\* The meta tags of a document that carry a key.
TagsWithKey(html, key) ==
    {i \in 1..Len(html) : html[i].kind = "meta" /\ parseMetaTag(html[i]).key = key}

\* C16: after injectMetaTags the document holds, for every key of the map, exactly one
\* meta tag with that key, and its content attribute is the (escaped) value of the map.
C16_ExactlyOneTagPerKey ==
    (call.method = "injectMetaTags" /\ ret.returned) =>
        \A k \in 1..Len(call.metaTags) :
            /\ Cardinality(TagsWithKey(ret.value[1], call.metaTags[k].key)) = 1
            /\ \A i \in TagsWithKey(ret.value[1], call.metaTags[k].key) :
                  ret.value[1][i].content = escapeHtml(call.metaTags[k].content)


\* C17: with injectDefaults = {original: false, extracted: false, static: true} and
\* inject.meta the validated record of a configuration that gives only static = M, the
\* merged meta map is exactly M, whatever the original and the extracted meta maps are.
C17_StaticOnlyMeta ==
    (/\ call.method = "mergeMeta"
     /\ ret.returned
     /\ call.injectDefaults = [original |-> FALSE, extracted |-> FALSE, static |-> TRUE]
     /\ \E raw \in ContentSources(MetaMapsOf("s")) :
           /\ raw.original = Undefined
           /\ raw.extracted = Undefined
           /\ raw.static # Undefined
           /\ call.injectConfig.meta = Defined(ContentSourceParse(raw)))
    => ret.value = call.injectConfig.meta[1].static[1]


\* The meta maps of the three sources in merge order, empty for a source not included.
MetaSources ==
    <<IF shouldInject(call.injectConfig.meta, "original", call.injectDefaults)
      THEN call.originalContent.meta ELSE <<>>,
      IF shouldInject(call.injectConfig.meta, "extracted", call.injectDefaults)
      THEN call.extractedContent.meta ELSE <<>>,
      IF shouldInjectStatic(call.injectConfig, "meta", call.injectDefaults)
      THEN configuredStatic(call.injectConfig.meta)[1] ELSE <<>>>>

\* The last of a set of positions (0 when there is none).
Last(positions) ==
    IF positions = {} THEN 0 ELSE CHOOSE i \in positions : \A j \in positions : j <= i

\* C18: the merged meta map has the keys of all included sources, and the value of each
\* key is the one of the last included source, in the order original, extracted, static,
\* whose map has the key.
C18_MetaOverlayOrder ==
    (call.method = "mergeMeta" /\ ret.returned) =>
        /\ DOMAIN ret.value = UNION {DOMAIN MetaSources[i] : i \in 1..3}
        /\ \A k \in DOMAIN ret.value :
              ret.value[k] = MetaSources[Last({i \in 1..3 : k \in DOMAIN MetaSources[i]})][k]

\* All three sources are merged, 'description' is in each of them and 'og:title' only
\* in the original one.
C18_Witness ==
    /\ call.method = "mergeMeta"
    /\ ret.returned
    /\ DOMAIN MetaSources[1] = MergeKeys
    /\ DOMAIN MetaSources[2] = {"description"}
    /\ DOMAIN MetaSources[3] = {"description"}
    /\ ret.value = [k \in MergeKeys |-> IF k = "description" THEN "s" ELSE "o"]

\* The titles of the three sources in merge order, undefined for a source that is not
\* included or has no title.
TitleSources ==
    <<IF shouldInject(call.injectConfig.title, "original", call.injectDefaults)
         /\ TruthyTitle(call.originalContent.title)
      THEN call.originalContent.title ELSE Undefined,
      IF shouldInject(call.injectConfig.title, "extracted", call.injectDefaults)
         /\ TruthyTitle(call.extractedContent.title)
      THEN call.extractedContent.title ELSE Undefined,
      IF shouldInjectStatic(call.injectConfig, "title", call.injectDefaults)
      THEN configuredStatic(call.injectConfig.title) ELSE Undefined>>

\* C19: mergeTitle returns the title of the last source, in the order original,
\* extracted, static, that is included and has a title, the inclusion flag being the one
\* of inject.title when it defines the source and the one of injectDefaults otherwise;
\* it returns no title when there is no such source.
C19_LastTitleWins ==
    (call.method = "mergeTitle" /\ ret.returned) =>
        LET last == Last({i \in 1..3 : TitleSources[i] # Undefined})
        IN  IF last = 0 THEN ret.value = Undefined ELSE ret.value = TitleSources[last]

\* The original and the extracted title are both included, the original by the default
\* flag and the extracted by the flag of inject.title, and the extracted one is returned.
C19_Witness ==
    /\ call.method = "mergeTitle"
    /\ ret.returned
    /\ call.injectConfig.title # Undefined
    /\ call.injectConfig.title[1].original = Undefined
    /\ call.injectConfig.title[1].extracted = Defined(TRUE)
    /\ ~call.injectDefaults.extracted
    /\ TitleSources[1] = Defined("O")
    /\ TitleSources[2] = Defined("E")
    /\ TitleSources[3] = Undefined
    /\ ret.value = Defined("E")

\* The fragments of a type ("head" or "body") of the three sources in merge order,
\* undefined for a source that is not included or has no fragment.
FragmentSources(type) ==
    <<IF shouldInject(call.injectConfig[type], "original", call.injectDefaults)
         /\ TruthyFragment(call.originalContent[type])
      THEN Defined(call.originalContent[type]) ELSE Undefined,
      IF shouldInject(call.injectConfig[type], "extracted", call.injectDefaults)
         /\ TruthyFragment(call.extractedContent[type])
      THEN Defined(call.extractedContent[type]) ELSE Undefined,
      IF shouldInjectStatic(call.injectConfig, type, call.injectDefaults)
      THEN configuredStatic(call.injectConfig[type]) ELSE Undefined>>

\* The fragments that are there, in order.
Present(fragments) ==
    LET present == SelectSeq(fragments, LAMBDA f : f # Undefined)
    IN  [i \in 1..Len(present) |-> present[i][1]]

\* The original head fragment without its meta tags when inject.meta.original is false
\* and without its title elements when inject.title.original is false.
PreFiltered(fragments) ==
    [fragments EXCEPT ![1] =
        IF @ = Undefined THEN Undefined
        ELSE Defined(filterHeadContent(@[1], originalExcluded(call.injectConfig.meta),
                                       originalExcluded(call.injectConfig.title)))]

\* C20 as stated: mergeHead and mergeBody return the fragments of the included sources
\* that have one, in the order original, extracted, static, joined by one newline, and
\* the empty string when there is none.
C20_FragmentsJoined ==
    (call.method \in {"mergeHead", "mergeBody"} /\ ret.returned) =>
        ret.value = JoinParts(Present(FragmentSources(
                        IF call.method = "mergeHead" THEN "head" ELSE "body")), 1)

\* C20 amended: mergeBody returns the fragments of the included sources that have one,
\* in the order original, extracted, static, joined by one newline; mergeHead does the
\* same with the original fragment pre-filtered: without its meta tags when
\* inject.meta.original is false and without its title elements when
\* inject.title.original is false.
C20_FragmentsJoinedPreFiltered ==
    /\ (call.method = "mergeBody" /\ ret.returned) =>
          ret.value = JoinParts(Present(FragmentSources("body")), 1)
    /\ (call.method = "mergeHead" /\ ret.returned) =>
          ret.value = JoinParts(Present(PreFiltered(FragmentSources("head"))), 1)

\* mergeHead has returned the original head fragment without its meta tag, followed by
\* the extracted and the static fragment.
C20_Witness ==
    /\ call.method = "mergeHead"
    /\ ret.returned
    /\ originalExcluded(call.injectConfig.meta)
    /\ ~originalExcluded(call.injectConfig.title)
    /\ \E i \in 1..Len(call.originalContent.head) : call.originalContent.head[i].kind = "meta"
    /\ ret.value = <<Markup("<link>"), Newline, Markup("<script>"), Newline, Markup("<style>")>>

\* The same call with the other value of injectDefaults.static.
OtherStaticDefault == [call.injectDefaults EXCEPT !.static = ~@]

C21_FailsExactlyOnNon2xx ==
    \A i \in AttemptIds :
        attempts[i].response # NoResponse =>
            (attempts[i].failedAt = "goto" <=>
                ~(attempts[i].response.kind = "response"
                  /\ attempts[i].response.status \in 200..299))

\* The steps of a successful attempt, in order.
AttemptSteps ==
    <<"goto">> \o (IF snapshotOptions.extraDelay > 0 THEN <<"delay">> ELSE <<>>)
        \o <<"extractContent", "pageContent">>

IsPrefix(a, b) == Len(a) <= Len(b) /\ SubSeq(b, 1, Len(a)) = a

C25_OneExtractionPerKey ==
    snapshotOptions.cacheOriginalContent => \A k \in CacheKeys : extractLog[k] <= 1

\* C26: an extraction that failed gives the empty record and does not fail the attempt:
\* the attempt goes on to its main navigation.
C26_ExtractionNeverRaises ==
    \A i \in AttemptIds :
        attempts[i].extraction = "failed" =>
            /\ attempts[i].original = NoOriginalContent
            /\ attempts[i].pc = "failed" => attempts[i].response # NoResponse

\* An attempt whose extraction failed has returned a snapshot.
C26_Witness ==
    \E i \in AttemptIds :
        /\ attempts[i].extraction = "failed"
        /\ attempts[i].original = NoOriginalContent
        /\ attempts[i].result = "returned"

InFlight(i) == attempts[i].pc \notin {"idle", "failed", "returned"}

AttemptsMade(i) ==
    IF attempts[i].pc = "idle" THEN 0 ELSE IF attempts[i].retried THEN 2 ELSE 1

OpenPages(i) == attempts[i].pagesOpened - attempts[i].pagesClosed

\* C36: every attempt opens one page and closes it before it ends, however it ends:
\* a call has opened as many pages as it made attempts, has one page open while an
\* attempt is in flight and none otherwise.
C36_OnePagePerAttempt ==
    \A i \in AttemptIds :
        /\ attempts[i].pagesOpened = AttemptsMade(i)
        /\ OpenPages(i) = IF InFlight(i) THEN 1 ELSE 0
        /\ attempts[i].page = "open" <=> InFlight(i)

\* A call whose first attempt failed has returned from its second attempt while the
\* other call's attempt is still in flight.
C36_Witness ==
    /\ attempts[1].retried
    /\ attempts[1].result = "returned"
    /\ attempts[1].pagesClosed = 2
    /\ InFlight(2)
    /\ OpenPages(2) = 1


\* ------------------------------------------------------------------ claims: prerender

Fetching == {i \in 1..Len(batch) : batch[i].status = "fetching"}

\* C23: at every moment the crawl fetches in flight are at most the crawl concurrency
\* limit, and the final per-route acquisitions in flight are at most
\* config.concurrency, whatever the number of routes and the order of completion.
C23_InFlightBounded ==
    /\ Cardinality(Fetching) <= config.concurrency
    /\ Cardinality(Running(pool)) <= engine.concurrency

\* More routes than slots, a full pool, one route done and one still waiting.
C23_Witness ==
    /\ Cardinality(Running(pool)) = engine.concurrency
    /\ engine.concurrency > 1
    /\ Pending(pool) # {}
    /\ snapshots # <<>>

\* C24: a fetch that is still pending occupies only its own slot: there is no moment
\* at which a fetch is pending, a slot of the pool is free and a route that will be
\* fetched is kept waiting, in the crawl phase and in the final phase alike.
C24_StallOccupiesOneSlot ==
    /\ ~ /\ Fetching # {}
         /\ Cardinality(Fetching) < config.concurrency
         /\ \E k \in 1..Len(queue) : ~DepthExhausted(queue[k].depth, config.depth)
    /\ ~ /\ Running(pool) # {}
         /\ Cardinality(Running(pool)) < engine.concurrency
         /\ Pending(pool) # {}

\* C27: a route whose acquisition fails makes prerender raise that route's error:
\* nothing is written, no result is returned, and a run that returns has a snapshot
\* of every route.
C27_OneFailureFailsRun ==
    /\ (\E i \in 1..Len(pool) : pool[i].status = "rejected") =>
          /\ engine.pc = "raised"
          /\ engine.error.kind = "route"
          /\ \E i \in 1..Len(pool) :
                pool[i].status = "rejected" /\ engine.error.route = pool[i].route
          /\ engine.result = NoResult
          /\ "write" \notin Range(engine.effects)
    /\ engine.pc \in {"feeds", "returned"} =>
          /\ Len(snapshots) = Len(pool)
          /\ \A i \in 1..Len(pool) : pool[i].route \in Range(snapshots)

\* A route fails after another route's snapshot was taken.
C27_Witness ==
    /\ engine.pc = "raised"
    /\ engine.error.kind = "route"
    /\ snapshots # <<>>
    /\ \A i \in 1..Len(pool) : pool[i].status \in {"resolved", "rejected"}

\* C28: when the output directory equals the serve directory prerender raises before
\* the build command, the server, the browser and any copy or write.
C28_SameDirectoryFailsFirst ==
    engine.outDir = engine.serveDir =>
        /\ engine.pc \in {"validate", "raised"}
        /\ engine.pc = "raised" => engine.error = ConfigError("same directory")
        /\ engine.effects = <<>>
        /\ crawlPc = "off"
        /\ pool = <<>>

C28_Witness ==
    /\ engine.outDir = "dist"
    /\ engine.serveDir = "dist"
    /\ engine.withBuild
    /\ engine.pc = "raised"

\* C34: the browser is closed by cleanup only after every route acquisition has
\* completed: once it is closed no task of processRoutes is running or waiting.
C34_ClosedAfterAcquisitions ==
    engine.browser = "closed" => Running(pool) = {} /\ Pending(pool) = {}

PassedValidation == ValidationError(engine.outDir, engine.serveDir) = NoEngineError

Ended == engine.pc \in {"returned", "raised"}

C40_WriteAfterAllAcquired ==
    /\ (\E i \in 1..Len(pool) : pool[i].status = "rejected") =>
          Range(engine.effects) \cap {"write", "feeds"} = {}
    /\ Range(engine.effects) \cap {"write", "feeds"} # {} =>
          /\ \A i \in 1..Len(pool) : pool[i].status = "resolved"
          /\ {pool[i].route : i \in 1..Len(pool)} = Range(snapshots)

\* The last route to settle fails after the others were acquired.
C40_Witness ==
    /\ engine.error.kind = "route"
    /\ Len(pool) > 1
    /\ Len(snapshots) = Len(pool) - 1
    /\ "write" \notin Range(engine.effects)

\* ------------------------------------------------------------------ claims: static files

\* The file the route is served from: '/' from the root index, a route ending in '/'
\* from the index of that directory, any other route from path + '.html' when that
\* file exists and from the index of the directory of that name otherwise.
ServedFile(route, files) ==
    IF route = <<"/">> THEN IndexHtml
    ELSE IF EndsWith(route, <<"/">>) THEN PathBelow(route \o IndexHtml)
    ELSE IF PathBelow(route \o <<".html">>) \in files THEN PathBelow(route \o <<".html">>)
    ELSE PathBelow(route \o <<"/">> \o IndexHtml)

\* C29: the static source reads the file the route is served from, so that a route
\* served from '<route>/index.html' yields the content of that file. Stated for the
\* routes that begin with '/' and carry no '.html' extension.
C29_StaticFileOfRoute ==
    /\ call.method = "extractFromStaticFile"
    /\ ret.returned
    /\ StartsWith(call.route, <<"/">>)
    /\ ~EndsWith(call.route, <<".html">>)
    => ret.value = IF ServedFile(call.route, call.files) \in call.files
                   THEN PageContentOf(ServedFile(call.route, call.files))
                   ELSE NoOriginalContent

\* ------------------------------------------------------------------ claims: extractLinksFromHtml

\* The three grounds for discarding an href: its URL is of another origin, it is a
\* fragment only, or its scheme is one of the skipped ones.
Discardable(href, baseRoute) ==
    \/ UrlOrigin(ParseUrl(href, baseRoute)) # BaseOrigin
    \/ href[1] = "#"
    \/ href[1] \in skipProtocols

\* C30: without special-protocol crawling, the links extracted are the paths of
\* exactly the hrefs that are neither cross-origin nor fragment-only nor of a skipped
\* scheme, in document order.
C30_DiscardsExactly ==
    /\ call.method = "extractLinksFromHtml"
    /\ ret.returned
    /\ ~call.crawlSpecialProtocols
    => LET kept == SelectSeq(call.html, LAMBDA href : ~Discardable(href, call.baseRoute))
       IN  ret.value = [i \in 1..Len(kept) |-> ParseUrl(kept[i], call.baseRoute).pathname]

\* ------------------------------------------------------------------ claims: applyMergedContent

Occurrences(html, fragment) == Cardinality({i \in 1..Len(html) : html[i] = fragment[1]})

\* C31: applyMergedContent inserts a head or body fragment only where it is missing:
\* neither the first pass over a rendered document nor a second pass over its own
\* output leaves a merged fragment in the document more than once.
C31_FragmentsInsertedOnce ==
    (call.method = "applyMergedContent" /\ ret.returned) =>
        \A k \in 1..Len(ret.value) :
            /\ call.mergedContent.head # EmptyString =>
                  Occurrences(ret.value[k], call.mergedContent.head) <= 1
            /\ call.mergedContent.body # EmptyString =>
                  Occurrences(ret.value[k], call.mergedContent.body) <= 1

\* ------------------------------------------------------------------ claims: cli

\* The options that are written on the command line.
ExplicitlyGiven(line) == {line[i].field : i \in 1..Len(line)}

\* C32: an option of the command line replaces the value of the configuration file
\* only when it is explicitly given: a field whose option is not on the command line
\* keeps the value of the configuration file, and a field whose option is given takes
\* the value given.
C32_OverridesOnlyWhenGiven ==
    (call.method = "main" /\ ret.returned) =>
        \A f \in CliFields :
            ret.value[f] = IF f \in ExplicitlyGiven(call.argv)
                           THEN ParsedArgv(call.argv)[f]
                           ELSE call.file[f]

====
